---------------------------- MODULE Spec2Model ----------------------------
(***************************************************************************)
(* The roman-to-katakana transliteration engine of find_researchers.py:    *)
(* roman_to_katakana, to_katakana_fullname, apply_surname_long_o and the   *)
(* name resolution _kana_parts of aggregate_author_scores.                 *)
(*                                                                         *)
(* Python strings are TLA+ strings; a character is a string of length 1.   *)
(* Cursors are 0-based as in the source: s[i] is Ch(s, i).                 *)
(*                                                                         *)
(* Stand-ins, forced by the lexer, which rejects some code points inside   *)
(* string literals:                                                        *)
(*   - the macron vowels U+0101 U+012B U+016B U+0113 U+014D of the MACRON  *)
(*     table are written with a diaeresis: "ä" "ï" "ü" "ë" "ö" (and their  *)
(*     capitals "Ä" "Ï" "Ü" "Ë" "Ö"); the circumflex vowels are themselves;*)
(*   - the hiragana letter U+3079 in the value of the "sambe" family       *)
(*     override is written "§";                                            *)
(*   - the capital I with dot above, U+0130, is written "Ì" and the        *)
(*     combining dot above, U+0307, of its lower-case form is written "¨". *)
(***************************************************************************)
EXTENDS Integers, Sequences, FiniteSets, TLC

\* ------------------------------------------------------------------ bounds
\* Longest token drawn from FreeAlphabet.
MaxLen == 3

\* ------------------------------------------------------------ string tools
Min(a, b) == IF a < b THEN a ELSE b

\* s[i] for a 0-based index i (a string of length 1; "" past the end)
Ch(s, i) == SubSeq(s, i + 1, i + 1)

\* s[i:j], the Python slice: clipped at the end of s
Slice(s, i, j) == SubSeq(s, i + 1, Min(j, Len(s)))

\* s.endswith(t)
EndsWith(s, t) == Len(s) >= Len(t) /\ SubSeq(s, Len(s) - Len(t) + 1, Len(s)) = t

\* "".join(units)
RECURSIVE Join(_)
Join(units) == IF units = <<>> THEN "" ELSE Head(units) \o Join(Tail(units))

\* ------------------------------------------------------------------ tables
VOWELS == {"a", "e", "i", "o", "u"}

\* The character class [bcdfghjklmnpqrstvwxyz] of the two look-aheads.
CONSONANTS ==
  {"b", "c", "d", "f", "g", "h", "j", "k", "l", "m", "n", "p", "q", "r", "s", "t",
   "v", "w", "x", "y", "z"}

\* The character class [a-z].
LETTERS == VOWELS \cup CONSONANTS

\* ----------------------------------------------------------------- strings
\* The strings held in the state are kept as the sequences of their Unicode
\* code points (the state files of the model checker keep ASCII only); the
\* operators below work on strings. CHARS lists the characters of the
\* modelled strings and POINTS their code points, in the same order (the
\* stand-ins carry the code points of the characters they stand for).
CHARS ==
  " ',-.0123456789ABCDEFGHIJKLMNOPQ" \o
  "RSTUVWXYZ_abcdefghijklmnopqrstuv" \o
  "wxyzäïüëöÄÏÜËÖâîûêôÂÎÛÊÔァアィイゥウェエ" \o
  "ォオカガキギクグケゲコゴサザシジスズセゼソゾタダチヂッツテデトド" \o
  "ナニヌネノハバパヒビピフブプヘベペホボポマミムメモャヤュユョヨラ" \o
  "リルレロワヲンヴ§Ì¨|"

POINTS ==
  <<32, 39, 44, 45, 46, 48, 49, 50, 51, 52, 53, 54, 55, 56, 57, 65,
    66, 67, 68, 69, 70, 71, 72, 73, 74, 75, 76, 77, 78, 79, 80, 81,
    82, 83, 84, 85, 86, 87, 88, 89, 90, 95, 97, 98, 99, 100, 101, 102,
    103, 104, 105, 106, 107, 108, 109, 110, 111, 112, 113, 114, 115, 116, 117, 118,
    119, 120, 121, 122, 257, 299, 363, 275, 333, 256, 298, 362, 274, 332, 226, 238,
    251, 234, 244, 194, 206, 219, 202, 212, 12449, 12450, 12451, 12452, 12453, 12454, 12455, 12456,
    12457, 12458, 12459, 12460, 12461, 12462, 12463, 12464, 12465, 12466, 12467, 12468, 12469, 12470, 12471, 12472,
    12473, 12474, 12475, 12476, 12477, 12478, 12479, 12480, 12481, 12482, 12483, 12484, 12486, 12487, 12488, 12489,
    12490, 12491, 12492, 12493, 12494, 12495, 12496, 12497, 12498, 12499, 12500, 12501, 12502, 12503, 12504, 12505,
    12506, 12507, 12508, 12509, 12510, 12511, 12512, 12513, 12514, 12515, 12516, 12517, 12518, 12519, 12520, 12521,
    12522, 12523, 12524, 12525, 12527, 12530, 12531, 12532, 12409, 304, 775, 124>>

CodeOf == [c \in {SubSeq(CHARS, k, k) : k \in 1..Len(CHARS)} |->
             POINTS[CHOOSE k \in 1..Len(CHARS) : SubSeq(CHARS, k, k) = c]]

CharOf == [p \in {POINTS[k] : k \in 1..Len(POINTS)} |->
             SubSeq(CHARS, (CHOOSE k \in 1..Len(POINTS) : POINTS[k] = p),
                           (CHOOSE k \in 1..Len(POINTS) : POINTS[k] = p))]

\* the code points of a string, and the string of a sequence of code points
Codes(str) == [k \in 1..Len(str) |-> CodeOf[SubSeq(str, k, k)]]

RECURSIVE Str(_)
Str(codes) == IF codes = <<>> THEN "" ELSE CharOf[Head(codes)] \o Str(Tail(codes))

\* a local that is not assigned yet
Unbound == <<0>>
\* Three-letter palatalized clusters (and the two-letter ja/ju/jo).
TRI_MAP ==
  [ kya |-> "キャ", kyu |-> "キュ", kyo |-> "キョ",
    gya |-> "ギャ", gyu |-> "ギュ", gyo |-> "ギョ",
    sha |-> "シャ", shu |-> "シュ", sho |-> "ショ",
    cha |-> "チャ", chu |-> "チュ", cho |-> "チョ",
    ja |-> "ジャ", ju |-> "ジュ", jo |-> "ジョ",
    nya |-> "ニャ", nyu |-> "ニュ", nyo |-> "ニョ",
    hya |-> "ヒャ", hyu |-> "ヒュ", hyo |-> "ヒョ",
    mya |-> "ミャ", myu |-> "ミュ", myo |-> "ミョ",
    rya |-> "リャ", ryu |-> "リュ", ryo |-> "リョ",
    bya |-> "ビャ", byu |-> "ビュ", byo |-> "ビョ",
    pya |-> "ピャ", pyu |-> "ピュ", pyo |-> "ピョ",
    tya |-> "チャ", tyu |-> "チュ", tyo |-> "チョ",
    dya |-> "ジャ", dyu |-> "ジュ", dyo |-> "ジョ" ]

\* Irregular spellings of two or three letters.
DI_MAP ==
  [ shi |-> "シ", chi |-> "チ", tsu |-> "ツ", fu |-> "フ", ji |-> "ジ",
    ti |-> "ティ", di |-> "ディ", tu |-> "トゥ", du |-> "ドゥ", je |-> "ジェ",
    che |-> "チェ", she |-> "シェ", ci |-> "シ", ce |-> "セ", wi |-> "ウィ",
    we |-> "ウェ", wo |-> "ヲ", ja |-> "ジャ", ju |-> "ジュ", jo |-> "ジョ" ]

\* Bare vowels and regular consonant+vowel syllables.
BASE ==
  [ a |-> "ア", i |-> "イ", u |-> "ウ", e |-> "エ", o |-> "オ",
    ka |-> "カ", ki |-> "キ", ku |-> "ク", ke |-> "ケ", ko |-> "コ",
    ga |-> "ガ", gi |-> "ギ", gu |-> "グ", ge |-> "ゲ", go |-> "ゴ",
    sa |-> "サ", si |-> "シ", su |-> "ス", se |-> "セ", so |-> "ソ",
    za |-> "ザ", zi |-> "ジ", zu |-> "ズ", ze |-> "ゼ", zo |-> "ゾ",
    ta |-> "タ", ti |-> "ティ", tu |-> "トゥ", te |-> "テ", to |-> "ト",
    da |-> "ダ", di |-> "ディ", du |-> "ドゥ", de |-> "デ", do |-> "ド",
    na |-> "ナ", ni |-> "ニ", nu |-> "ヌ", ne |-> "ネ", no |-> "ノ",
    ha |-> "ハ", hi |-> "ヒ", hu |-> "フ", he |-> "ヘ", ho |-> "ホ",
    ba |-> "バ", bi |-> "ビ", bu |-> "ブ", be |-> "ベ", bo |-> "ボ",
    pa |-> "パ", pi |-> "ピ", pu |-> "プ", pe |-> "ペ", po |-> "ポ",
    ma |-> "マ", mi |-> "ミ", mu |-> "ム", me |-> "メ", mo |-> "モ",
    ra |-> "ラ", ri |-> "リ", ru |-> "ル", re |-> "レ", ro |-> "ロ",
    ya |-> "ヤ", yu |-> "ユ", yo |-> "ヨ", wa |-> "ワ", we |-> "ウェ",
    wo |-> "ヲ", va |-> "ヴァ", vi |-> "ヴィ", vu |-> "ヴ", ve |-> "ヴェ",
    vo |-> "ヴォ", fa |-> "ファ", fi |-> "フィ", fe |-> "フェ", fo |-> "フォ",
    la |-> "ラ", li |-> "リ", lu |-> "ル", le |-> "レ", lo |-> "ロ",
    ca |-> "カ", ci |-> "シ", cu |-> "ク", ce |-> "セ", co |-> "コ",
    qa |-> "カ", qi |-> "キ", qu |-> "ク", qe |-> "ケ", qo |-> "コ" ]

\* Fault variant: the o with macron or circumflex is doubled like the others.
MACRON_DoubledO ==
  ("ä" :> "aa") @@ ("ï" :> "ii") @@ ("ü" :> "uu") @@ ("ë" :> "ee") @@ ("ö" :> "oo") @@
  ("â" :> "aa") @@ ("î" :> "ii") @@ ("û" :> "uu") @@ ("ê" :> "ee") @@ ("ô" :> "oo")

MACRON ==
  ("ä" :> "aa") @@ ("ï" :> "ii") @@ ("ü" :> "uu") @@ ("ë" :> "ee") @@ ("ö" :> "ou") @@
  ("â" :> "aa") @@ ("î" :> "ii") @@ ("û" :> "uu") @@ ("ê" :> "ee") @@ ("ô" :> "ou")

\* str.lower() on one character, for the capitals of the modelled alphabet;
\* U+0130 lower-cases to the two characters "i" and U+0307.
LowerOf ==
  [ A |-> "a", B |-> "b", C |-> "c", D |-> "d", E |-> "e", F |-> "f", G |-> "g",
    H |-> "h", I |-> "i", J |-> "j", K |-> "k", L |-> "l", M |-> "m", N |-> "n",
    O |-> "o", P |-> "p", Q |-> "q", R |-> "r", S |-> "s", T |-> "t", U |-> "u",
    V |-> "v", W |-> "w", X |-> "x", Y |-> "y", Z |-> "z" ]
  @@ ("Ä" :> "ä") @@ ("Ï" :> "ï") @@ ("Ü" :> "ü") @@ ("Ë" :> "ë") @@ ("Ö" :> "ö")
  @@ ("Â" :> "â") @@ ("Î" :> "î") @@ ("Û" :> "û") @@ ("Ê" :> "ê") @@ ("Ô" :> "ô")
  @@ ("Ì" :> "i¨")

\* s.lower()
RECURSIVE Lower(_)
Lower(s) ==
  IF s = "" THEN ""
  ELSE (IF Ch(s, 0) \in DOMAIN LowerOf THEN LowerOf[Ch(s, 0)] ELSE Ch(s, 0))
       \o Lower(Slice(s, 1, Len(s)))

\* s.translate(MACRON)
RECURSIVE Translate(_)
Translate(s) ==
  IF s = "" THEN ""
  ELSE (IF Ch(s, 0) \in DOMAIN MACRON THEN MACRON[Ch(s, 0)] ELSE Ch(s, 0))
       \o Translate(Slice(s, 1, Len(s)))

\* re.sub(r"[^a-z]", "", s)
RECURSIVE StripNonLetters(_)
StripNonLetters(s) ==
  IF s = "" THEN ""
  ELSE (IF Ch(s, 0) \in LETTERS THEN Ch(s, 0) ELSE "")
       \o StripNonLetters(Slice(s, 1, Len(s)))

\* Fault variant: the alternative $ of the look-ahead is missing.
ConsonantOrEnd_NoEnd(s, j) == j < Len(s) /\ Ch(s, j) \in CONSONANTS

\* The look-ahead (?=[bcdfghjklmnpqrstvwxyz]|$) at 0-based position j of s.
ConsonantOrEnd(s, j) == j >= Len(s) \/ Ch(s, j) \in CONSONANTS

\* re.sub(r"oh(?=[bcdfghjklmnpqrstvwxyz]|$)", "ou", s): matches are found
\* left to right and do not overlap; the look-ahead reads the original s.
RECURSIVE OhFrom(_, _)
OhFrom(s, j) ==
  IF j >= Len(s) THEN ""
  ELSE IF Slice(s, j, j + 2) = "oh" /\ ConsonantOrEnd(s, j + 2)
       THEN "ou" \o OhFrom(s, j + 2)
       ELSE Ch(s, j) \o OhFrom(s, j + 1)

OhRewrite(s) == OhFrom(s, 0)

\* re.sub(r"オウウ", "オウ", kat)
RECURSIVE CollapseFrom(_, _)
CollapseFrom(kat, j) ==
  IF j >= Len(kat) THEN ""
  ELSE IF Slice(kat, j, j + 3) = "オウウ"
       THEN "オウ" \o CollapseFrom(kat, j + 3)
       ELSE Ch(kat, j) \o CollapseFrom(kat, j + 1)

CollapseLongO(kat) == CollapseFrom(kat, 0)

\* Fault variant: the call of lower() is missing.
Clean_NoLower(s) == StripNonLetters(Translate(s))

\* Lines 3199-3200: lower-case, replace the macron vowels, keep the letters.
Clean(s) == StripNonLetters(Translate(Lower(s)))

\* ----------------------------------------------- the segmentation loop body
\* The tests of one iteration at cursor i of the cleaned token s, in the
\* order of the source; the step taken is the first whose test holds.
\* Fault variant: the exclusion of "n" is missing.
IsGeminate_WithN(s, i) ==
  /\ i + 1 < Len(s)
  /\ Ch(s, i) = Ch(s, i + 1)
  /\ Ch(s, i) \notin VOWELS

IsGeminate(s, i) ==
  /\ i + 1 < Len(s)
  /\ Ch(s, i) = Ch(s, i + 1)
  /\ Ch(s, i) \notin VOWELS
  /\ Ch(s, i) # "n"

IsTri(s, i) == Slice(s, i, i + 3) \in DOMAIN TRI_MAP

IsDi3(s, i) == Slice(s, i, i + 3) \in DOMAIN DI_MAP

IsDi2(s, i) == Slice(s, i, i + 2) \in DOMAIN DI_MAP

IsN(s, i) == Ch(s, i) = "n"

\* BASE.get(key) is truthy
InBase(key) == key \in DOMAIN BASE /\ BASE[key] # ""

\* Fault variant: n before a vowel is not read as a syllable (the behaviour
\* the docstring of roman_to_katakana reports as corrected).
IsNVowel_Never(s, i) == FALSE

IsNVowel(s, i) ==
  /\ i + 1 < Len(s)
  /\ Ch(s, i + 1) \in {"a", "i", "u", "e", "o"}
  /\ InBase("n" \o Ch(s, i + 1))

IsNY(s, i) == i + 1 < Len(s) /\ Ch(s, i + 1) = "y"

\* key of the consonant+vowel lookup: "l" is read as "r"
CvKey(s, i) == (IF Ch(s, i) = "l" THEN "r" ELSE Ch(s, i)) \o Ch(s, i + 1)

IsConsVowel(s, i) ==
  /\ i + 1 < Len(s)
  /\ Ch(s, i) \notin VOWELS
  /\ Ch(s, i + 1) \in VOWELS
  /\ InBase(CvKey(s, i))

\* Fault variant: the branch for a vowel on its own is missing.
IsVowel_Never(s, i) == FALSE

IsVowel(s, i) == Ch(s, i) \in VOWELS

\* The step of the iteration at cursor i: its name, the unit appended to out
\* ("" when nothing is appended) and the cursor increment.
\* Fault variant: the test for "n" precedes the tests for the clusters.
Rule_NBeforeTri(s, i) ==
  IF IsGeminate(s, i) THEN "geminate"
  ELSE IF IsN(s, i) THEN
         (IF IsNVowel(s, i) THEN "n_vowel"
          ELSE IF IsNY(s, i) THEN "n_y"
          ELSE "n_alone")
  ELSE IF IsTri(s, i) THEN "tri"
  ELSE IF IsDi3(s, i) THEN "di3"
  ELSE IF IsDi2(s, i) THEN "di2"
  ELSE IF IsConsVowel(s, i) THEN "cons_vowel"
  ELSE IF IsVowel(s, i) THEN "vowel"
  ELSE "drop"

Rule(s, i) ==
  IF IsGeminate(s, i) THEN "geminate"
  ELSE IF IsTri(s, i) THEN "tri"
  ELSE IF IsDi3(s, i) THEN "di3"
  ELSE IF IsDi2(s, i) THEN "di2"
  ELSE IF IsN(s, i) THEN
         (IF IsNVowel(s, i) THEN "n_vowel"
          ELSE IF IsNY(s, i) THEN "n_y"
          ELSE "n_alone")
  ELSE IF IsConsVowel(s, i) THEN "cons_vowel"
  ELSE IF IsVowel(s, i) THEN "vowel"
  ELSE "drop"

Emits(rule) == rule # "drop"

Unit(s, i) ==
  LET r == Rule(s, i) IN
  IF r = "geminate" THEN "ッ"
  ELSE IF r = "tri" THEN TRI_MAP[Slice(s, i, i + 3)]
  ELSE IF r = "di3" THEN DI_MAP[Slice(s, i, i + 3)]
  ELSE IF r = "di2" THEN DI_MAP[Slice(s, i, i + 2)]
  ELSE IF r = "n_vowel" THEN BASE["n" \o Ch(s, i + 1)]
  ELSE IF r = "n_y" THEN "ニ"
  ELSE IF r = "n_alone" THEN "ン"
  ELSE IF r = "cons_vowel" THEN BASE[CvKey(s, i)]
  ELSE IF r = "vowel" THEN (IF Ch(s, i) \in DOMAIN BASE THEN BASE[Ch(s, i)] ELSE "")
  ELSE ""

\* Fault variant: the final "i += 1" of the loop body is missing.
Advance_DropStays(s, i) ==
  LET r == Rule(s, i) IN
  IF r \in {"tri", "di3"} THEN 3
  ELSE IF r \in {"di2", "n_vowel", "cons_vowel"} THEN 2
  ELSE IF r = "drop" THEN 0
  ELSE 1

Advance(s, i) ==
  LET r == Rule(s, i) IN
  IF r \in {"tri", "di3"} THEN 3
  ELSE IF r \in {"di2", "n_vowel", "cons_vowel"} THEN 2
  ELSE 1

\* The while loop from cursor i with the units collected so far.
RECURSIVE Segment(_, _, _)
Segment(s, i, units) ==
  IF i < Len(s)
  THEN Segment(s, i + Advance(s, i),
               IF Emits(Rule(s, i)) THEN Append(units, Unit(s, i)) ELSE units)
  ELSE units

\* Fault variant: the fix-up is missing.
Finish_Joined(units, long_vowel) == Join(units)

\* Fault variant: the fix-up is applied whatever long_vowel is.
Finish_Always(units, long_vowel) == CollapseLongO(Join(units))

\* The final join and the long-vowel fix-up (lines 3240-3243).
Finish(units, long_vowel) ==
  IF long_vowel THEN CollapseLongO(Join(units)) ELSE Join(units)

\* roman_to_katakana(s, long_vowel) as a function of its arguments.
RomanToKatakana(s, long_vowel) ==
  IF s = "" THEN ""
  ELSE Finish(Segment(OhRewrite(Clean(s)), 0, <<>>), long_vowel)

\* Family-name overrides. A key the source lists twice keeps its last value,
\* as a Python dict literal does.
KATAKANA_LASTNAME_OVERRIDE ==
  [ abe |-> "アベ",
    abiko |-> "アビコ",
    adachi |-> "アダチ",
    agematsu |-> "アゲマツ",
    aihara |-> "アイハラ",
    aikawa |-> "アイカワ",
    aizawa |-> "アイザワ",
    ajimi |-> "アジミ",
    akabame |-> "アカバメ",
    akagi |-> "アカギ",
    akahori |-> "アカホリ",
    akama |-> "アカマ",
    akamine |-> "アカミネ",
    akao |-> "アカオ",
    akari |-> "アカリ",
    akasaka |-> "アカサカ",
    akase |-> "アカセ",
    akashi |-> "アカシ",
    akazawa |-> "アカザワ",
    akima |-> "アキマ",
    akimaru |-> "アキマル",
    akioka |-> "アキオカ",
    akita |-> "アキタ",
    akiyama |-> "アキヤマ",
    ako |-> "アコ",
    akutsu |-> "アクツ",
    amagaya |-> "アマガヤ",
    amaki |-> "アマキ",
    amanai |-> "アマナイ",
    amano |-> "アマノ",
    amemiya |-> "アメミヤ",
    amisaki |-> "アミサキ",
    anai |-> "アナイ",
    ando |-> "アンドウ",
    anzai |-> "アンザイ",
    anzaki |-> "アンザキ",
    aoki |-> "アオキ",
    aono |-> "アオノ",
    aoyama |-> "アオヤマ",
    arai |-> "アライ",
    arakaki |-> "アラカキ",
    araki |-> "アラキ",
    aramaki |-> "アラマキ",
    arao |-> "アラオ",
    arashi |-> "アラシ",
    aratame |-> "アラタメ",
    arikawa |-> "アリカワ",
    arima |-> "アリマ",
    arimoto |-> "アリモト",
    asada |-> "アサダ",
    asai |-> "アサイ",
    asakawa |-> "アサカワ",
    asakura |-> "アサクラ",
    asami |-> "アサミ",
    asano |-> "アサノ",
    asaoka |-> "アサオカ",
    asari |-> "アサリ",
    asaumi |-> "アサウミ",
    ashida |-> "アシダ",
    ashikaga |-> "アシカガ",
    ashikawa |-> "アシカワ",
    asukai |-> "アスカイ",
    atsuchi |-> "アツチ",
    atsumi |-> "アツミ",
    awaya |-> "アワヤ",
    ayabe |-> "アヤベ",
    baba |-> "ババ",
    bando |-> "バンドウ",
    chatani |-> "チャタニ",
    chiba |-> "チバ",
    chida |-> "チダ",
    chikata |-> "チカタ",
    chinen |-> "チネン",
    chishiki |-> "チシキ",
    chisiki |-> "チシキ",
    dai |-> "ダイ",
    daida |-> "ダイダ",
    daimon |-> "ダイモン",
    dan |-> "ダン",
    deguchi |-> "デグチ",
    dochi |-> "ドチ",
    dohi |-> "ドイ",
    doi |-> "ドイ",
    doijiri |-> "ドイジリ",
    domei |-> "ドウメイ",
    ebara |-> "エバラ",
    ebato |-> "エバト",
    ebihara |-> "エビハラ",
    ebina |-> "エビナ",
    ebisawa |-> "エビサワ",
    ebuchi |-> "エブチ",
    egami |-> "エガミ",
    ehara |-> "エハラ",
    eizawa |-> "エイザワ",
    ejiri |-> "エジリ",
    emori |-> "エモリ",
    emoto |-> "エモト",
    endo |-> "エンドウ",
    enomoto |-> "エノモト",
    enta |-> "エンタ",
    esaki |-> "エサキ",
    eto |-> "エトウ",
    etoh |-> "エトウ",
    ezure |-> "エズレ",
    fujibayashi |-> "フジバヤシ",
    fujihara |-> "フジハラ",
    fujii |-> "フジイ",
    fujikawa |-> "フジカワ",
    fujima |-> "フジマ",
    fujimi |-> "フジミ",
    fujimiya |-> "フジミヤ",
    fujimoto |-> "フジモト",
    fujimura |-> "フジムラ",
    fujinami |-> "フジナミ",
    fujino |-> "フジノ",
    fujinuma |-> "フジヌマ",
    fujioka |-> "フジオカ",
    fujisaka |-> "フジサカ",
    fujisaki |-> "フジサキ",
    fujisawa |-> "フジサワ",
    fujishima |-> "フジシマ",
    fujisue |-> "フジスエ",
    fujita |-> "フジタ",
    fujito |-> "フジト",
    fujiu |-> "フジウ",
    fujiwara |-> "フジワラ",
    fujiyama |-> "フジヤマ",
    fujiyoshi |-> "フジヨシ",
    fukae |-> "フカエ",
    fukagai |-> "フカガイ",
    fukamachi |-> "フカマチ",
    fukami |-> "フカミ",
    fukamizu |-> "フカミズ",
    fukase |-> "フカセ",
    fukata |-> "フカタ",
    fukazawa |-> "フカザワ",
    fuki |-> "フキ",
    fuku |-> "フク",
    fukuda |-> "フクダ",
    fukuhara |-> "フクハラ",
    fukui |-> "フクイ",
    fukuishi |-> "フクイシ",
    fukuizumi |-> "フクイズミ",
    fukuma |-> "フクマ",
    fukumoto |-> "フクモト",
    fukunaga |-> "フクナガ",
    fukunami |-> "フクナミ",
    fukuoka |-> "フクオカ",
    fukushima |-> "フクシマ",
    fukutomi |-> "フクトミ",
    fukuyado |-> "フクヤド",
    fukuyama |-> "フクヤマ",
    fukuzawa |-> "フクザワ",
    funabiki |-> "フナビキ",
    funaki |-> "フナキ",
    funakubo |-> "フナクボ",
    funamizu |-> "フナミズ",
    funatsu |-> "フナツ",
    funayama |-> "フナヤマ",
    furugori |-> "フルゴオリ",
    furukawa |-> "フルカワ",
    furusawa |-> "フルサワ",
    furushima |-> "フルシマ",
    furusho |-> "フルショウ",
    furuta |-> "フルタ",
    furuya |-> "フルヤ",
    furuyashiki |-> "フルヤシキ",
    fusazaki |-> "フサザキ",
    fuseya |-> "フセヤ",
    fushimi |-> "フシミ",
    gatate |-> "ガタテ",
    gibo |-> "ギボ",
    godo |-> "ゴウド",
    gohbara |-> "ゴオバラ",
    gomi |-> "ゴミ",
    goriki |-> "ゴウリキ",
    gotanda |-> "ゴタンダ",
    goto |-> "ゴトウ",
    gunji |-> "グンジ",
    haba |-> "ハバ",
    habara |-> "ハバラ",
    hachinohe |-> "ハチノヘ",
    hada |-> "ハダ",
    hadase |-> "ハダセ",
    haga |-> "ハガ",
    hagikura |-> "ハギクラ",
    hagiwara |-> "ハギワラ",
    hagiya |-> "ハギヤ",
    hai |-> "ハイ",
    haishi |-> "ハイシ",
    hakoda |-> "ハコダ",
    hamada |-> "ハマダ",
    hamadate |-> "ハマダテ",
    hamaguchi |-> "ハマグチ",
    hamana |-> "ハマナ",
    hamanaka |-> "ハマナカ",
    hamano |-> "ハマノ",
    hamashige |-> "ハマシゲ",
    hamatani |-> "ハマタニ",
    hamaya |-> "ハマヤ",
    hamazaki |-> "ハマザキ",
    hanada |-> "ハナダ",
    hanajima |-> "ハナジマ",
    hanaoka |-> "ハナオカ",
    hanatani |-> "ハナタニ",
    hanyu |-> "ハニュウ",
    hao |-> "ハオ",
    hara |-> "ハラ",
    harada |-> "ハラダ",
    haruki |-> "ハルキ",
    haruta |-> "ハルタ",
    hasebe |-> "ハセベ",
    hasegawa |-> "ハセガワ",
    hashiba |-> "ハシバ",
    hashikata |-> "ハシカタ",
    hashimoto |-> "ハシモト",
    hata |-> "ハタ",
    hatori |-> "ハットリ",
    hattori |-> "ハットリ",
    hayakawa |-> "ハヤカワ",
    hayama |-> "ハヤマ",
    hayasaka |-> "ハヤサカ",
    hayase |-> "ハヤセ",
    hayashi |-> "ハヤシ",
    hayashida |-> "ハヤシダ",
    hayatsu |-> "ハヤツ",
    hibi |-> "ヒビ",
    hibino |-> "ヒビノ",
    hida |-> "ヒダ",
    hidaka |-> "ヒダカ",
    hieda |-> "ヒエダ",
    hifumi |-> "ヒフミ",
    higa |-> "ヒガ",
    higaki |-> "ヒガキ",
    higami |-> "ヒガミ",
    higashida |-> "ヒガシダ",
    higashihara |-> "ヒガシハラ",
    higashikuni |-> "ヒガシクニ",
    higashino |-> "ヒガシノ",
    higashioka |-> "ヒガシオカ",
    higashiya |-> "ヒガシヤ",
    higo |-> "ヒゴ",
    higuchi |-> "ヒグチ",
    higuma |-> "ヒグマ",
    hiki |-> "ヒキ",
    hikichi |-> "ヒキチ",
    hikida |-> "ヒキダ",
    hikita |-> "ヒキタ",
    hikoso |-> "ヒコソ",
    himi |-> "ヒミ",
    himuro |-> "ヒムロ",
    hino |-> "ヒノ",
    hiraga |-> "ヒラガ",
    hirai |-> "ヒライ",
    hiraide |-> "ヒライデ",
    hiraishi |-> "ヒライシ",
    hiraiwa |-> "ヒライワ",
    hirakawa |-> "ヒラカワ",
    hiramatsu |-> "ヒラマツ",
    hiramori |-> "ヒラモリ",
    hirano |-> "ヒラノ",
    hirao |-> "ヒラオ",
    hiraoka |-> "ヒラオカ",
    hirase |-> "ヒラセ",
    hirashima |-> "ヒラシマ",
    hirata |-> "ヒラタ",
    hiraya |-> "ヒラヤ",
    hirayama |-> "ヒラヤマ",
    hirayu |-> "ヒラユ",
    hiro |-> "ヒロ",
    hirofuji |-> "ヒロフジ",
    hirofuzi |-> "ヒロフジ",
    hirohata |-> "ヒロハタ",
    hiromasa |-> "ヒロマサ",
    hironaga |-> "ヒロナガ",
    hirooka |-> "ヒロオカ",
    hirose |-> "ヒロセ",
    hirota |-> "ヒロタ",
    hiruma |-> "ヒルマ",
    hisadome |-> "ヒサドメ",
    hisamune |-> "ヒサムネ",
    hisanaga |-> "ヒサナガ",
    hisauchi |-> "ヒサウチ",
    hishikari |-> "ヒシカリ",
    hitomi |-> "ヒトミ",
    hoji |-> "ホジ",
    hojo |-> "ホウジョウ",
    hokama |-> "ホカマ",
    hokimoto |-> "ホキモト",
    homma |-> "ホンマ",
    honda |-> "ホンダ",
    honde |-> "ホンデ",
    hondera |-> "ホンデラ",
    hongo |-> "ホンゴウ",
    honye |-> "ホンエ",
    hori |-> "ホリ",
    horibe |-> "ホリベ",
    horie |-> "ホリエ",
    horii |-> "ホリイ",
    horikoshi |-> "ホリコシ",
    horimoto |-> "ホリモト",
    horio |-> "ホリオ",
    horita |-> "ホリタ",
    horiuchi |-> "ホリウチ",
    hoshi |-> "ホシ",
    hoshiga |-> "ホシガ",
    hoshika |-> "ホシカ",
    hoshina |-> "ホシナ",
    hoshino |-> "ホシノ",
    hoshiyama |-> "ホシヤマ",
    hosoda |-> "ホソダ",
    hosoe |-> "ホソエ",
    hosogi |-> "ホソギ",
    hosoi |-> "ホソイ",
    hosokawa |-> "ホソカワ",
    hosoya |-> "ホソヤ",
    hosozawa |-> "ホソザワ",
    hotsuki |-> "ホツキ",
    hotta |-> "ホッタ",
    hoyano |-> "ホヤノ",
    hozawa |-> "ホザワ",
    hyodo |-> "ヒョオドウ",
    ibaraki |-> "イバラキ",
    ichibori |-> "イチボリ",
    ichihara |-> "イチハラ",
    ichikawa |-> "イチカワ",
    ichinokawa |-> "イチノカワ",
    ichioka |-> "イチオカ",
    ida |-> "イダ",
    ide |-> "イデ",
    ideguchi |-> "イデグチ",
    ieda |-> "イエダ",
    iehara |-> "イエハラ",
    igarashi |-> "イガラシ",
    igawa |-> "イガワ",
    igeta |-> "イゲタ",
    iha |-> "イハ",
    ihara |-> "イハラ",
    iida |-> "イイダ",
    iihara |-> "イイハラ",
    iijima |-> "イイジマ",
    iimori |-> "イイモリ",
    iino |-> "イイノ",
    iioka |-> "イイオカ",
    iiya |-> "イイヤ",
    ijuin |-> "イジュウイン",
    ikai |-> "イカイ",
    ikari |-> "イカリ",
    ike |-> "イケ",
    ikebe |-> "イケベ",
    ikeda |-> "イケダ",
    ikegami |-> "イケガミ",
    ikemiyagi |-> "イケミヤギ",
    ikemura |-> "イケムラ",
    ikenaga |-> "イケナガ",
    ikeno |-> "イケノ",
    ikeoka |-> "イケオカ",
    ikeuchi |-> "イケウチ",
    ikuchi |-> "イクチ",
    ikuta |-> "イクタ",
    imada |-> "イマダ",
    imagawa |-> "イマガワ",
    imai |-> "イマイ",
    imaizumi |-> "イマイズミ",
    imamura |-> "イマムラ",
    imanaka |-> "イマナカ",
    imaoka |-> "イマオカ",
    imori |-> "イモリ",
    inaba |-> "イナバ",
    inada |-> "イナダ",
    inagaki |-> "イナガキ",
    inden |-> "インデン",
    ino |-> "イノウ",
    inohara |-> "イノハラ",
    inoko |-> "イノコ",
    inomata |-> "イノマタ",
    inoue |-> "イノウエ",
    inuzuka |-> "イヌズカ",
    ioji |-> "イオジ",
    irie |-> "イリエ",
    iritani |-> "イリタニ",
    isawa |-> "イサワ",
    iseki |-> "イセキ",
    ishi |-> "イシイ",
    ishibashi |-> "イシバシ",
    ishibuchi |-> "イシブチ",
    ishida |-> "イシダ",
    ishidoya |-> "イシドヤ",
    ishigaki |-> "イシガキ",
    ishigami |-> "イシガミ",
    ishiguro |-> "イシグロ",
    ishihara |-> "イシハラ",
    ishii |-> "イシイ",
    ishikawa |-> "イシカワ",
    ishimura |-> "イシムラ",
    ishino |-> "イシノ",
    ishio |-> "イシオ",
    ishisone |-> "イシソネ",
    ishiwata |-> "イシワタ",
    ishizawa |-> "イシザワ",
    ishizu |-> "イシズ",
    iso |-> "イソ",
    isobe |-> "イソベ",
    isoda |-> "イソダ",
    isodono |-> "イソドノ",
    isogai |-> "イソガイ",
    isomura |-> "イソムラ",
    isozaki |-> "イソザキ",
    isshiki |-> "イッシキ",
    itabashi |-> "イタバシ",
    itagaki |-> "イタガキ",
    itaya |-> "イタヤ",
    ito |-> "イトウ",
    itoh |-> "イトウ",
    itokawa |-> "イトカワ",
    itoshima |-> "イトシマ",
    iwabe |-> "イワベ",
    iwabuchi |-> "イワブチ",
    iwagami |-> "イワガミ",
    iwahashi |-> "イワハシ",
    iwahori |-> "イワホリ",
    iwai |-> "イワイ",
    iwakura |-> "イワクラ",
    iwama |-> "イワマ",
    iwamoto |-> "イワモト",
    iwanaga |-> "イワナガ",
    iwanami |-> "イワナミ",
    iwane |-> "イワネ",
    iwasa |-> "イワサ",
    iwasaki |-> "イワサキ",
    iwata |-> "イワタ",
    iwatsubo |-> "イワツボ",
    iwayama |-> "イワヤマ",
    izawa |-> "イザワ",
    izumi |-> "イズミ",
    izumikawa |-> "イズミカワ",
    izumiya |-> "イズミヤ",
    izumo |-> "イズモ",
    jinno |-> "ジンノ",
    jinnouchi |-> "ジンノウチ",
    jojima |-> "ジョウジマ",
    joki |-> "ジョウキ",
    jujo |-> "ジュウジョウ",
    kabutoya |-> "カブトヤ",
    kachi |-> "カチ",
    kadokami |-> "カドカミ",
    kadooka |-> "カドオカ",
    kadota |-> "カドタ",
    kadotani |-> "カドタニ",
    kaga |-> "カガ",
    kagawa |-> "カガワ",
    kageyama |-> "カゲヤマ",
    kai |-> "カイ",
    kaichi |-> "カイチ",
    kaikita |-> "カイキタ",
    kainuma |-> "カイヌマ",
    kaitani |-> "カイタニ",
    kaji |-> "カジ",
    kajihara |-> "カジハラ",
    kajikawa |-> "カジカワ",
    kajimoto |-> "カジモト",
    kajinami |-> "カジナミ",
    kajiwara |-> "カジワラ",
    kajiya |-> "カジヤ",
    kakazu |-> "カカズ",
    kakei |-> "カケイ",
    kakimoto |-> "カキモト",
    kakizaki |-> "カキザキ",
    kaku |-> "カク",
    kakumori |-> "カクモリ",
    kakuta |-> "カクタ",
    kamada |-> "カマダ",
    kamagata |-> "カマガタ",
    kamba |-> "カンバ",
    kameda |-> "カメダ",
    kameshima |-> "カメシマ",
    kameyama |-> "カメヤマ",
    kamigaki |-> "カミガキ",
    kamikawa |-> "カミカワ",
    kamisago |-> "カミサゴ",
    kamishima |-> "カミシマ",
    kamishita |-> "カミシタ",
    kamiunten |-> "カミウンテン",
    kamiya |-> "カミヤ",
    kamon |-> "カモン",
    kanaji |-> "カナジ",
    kanamori |-> "カナモリ",
    kanaoka |-> "カナオカ",
    kanaya |-> "カナヤ",
    kanazawa |-> "カナザワ",
    kanda |-> "カンダ",
    kandori |-> "カンドリ",
    kaneda |-> "カネダ",
    kanegawa |-> "カネガワ",
    kanehama |-> "カネハマ",
    kaneko |-> "カネコ",
    kanemitsu |-> "カネミツ",
    kanemura |-> "カネムラ",
    kanenawa |-> "カネナワ",
    kanie |-> "カニエ",
    kanno |-> "カンノ",
    kanzaki |-> "カンザキ",
    karasawa |-> "カラサワ",
    kario |-> "カリオ",
    kasahara |-> "カサハラ",
    kasai |-> "カサイ",
    kasama |-> "カサマ",
    kashima |-> "カシマ",
    kashimura |-> "カシムラ",
    kashiwagi |-> "カシワギ",
    kashiyama |-> "カシヤマ",
    kasuga |-> "カスガ",
    katagata |-> "カタガタ",
    katagiri |-> "カタギリ",
    katahira |-> "カタヒラ",
    katamine |-> "カタミネ",
    kataoka |-> "カタオカ",
    katawaki |-> "カタワキ",
    katayama |-> "カタヤマ",
    kato |-> "カトウ",
    katoh |-> "カトウ",
    katsuki |-> "カツキ",
    katsumata |-> "カツマタ",
    katsura |-> "カツラ",
    katsushika |-> "カツシカ",
    kawachi |-> "カワチ",
    kawada |-> "カワダ",
    kawagoe |-> "カワゴエ",
    kawaguchi |-> "カワグチ",
    kawahara |-> "カワハラ",
    kawahatsu |-> "カワハツ",
    kawahira |-> "カワヒラ",
    kawai |-> "カワイ",
    kawakami |-> "カワカミ",
    kawakubo |-> "カワクボ",
    kawamori |-> "カワモリ",
    kawamoto |-> "カワモト",
    kawamura |-> "カワムラ",
    kawanami |-> "カワナミ",
    kawanishi |-> "カワニシ",
    kawano |-> "カワノ",
    kawasaki |-> "カワサキ",
    kawase |-> "カワセ",
    kawashima |-> "カワシマ",
    kawasoe |-> "カワソエ",
    kawata |-> "カワタ",
    kawauchi |-> "カワウチ",
    kawaura |-> "カワウラ",
    kayanuma |-> "カヤヌマ",
    kazama |-> "カザマ",
    kazui |-> "カズイ",
    kazuya |-> "カズヤ",
    keira |-> "ケイラ",
    kibe |-> "キベ",
    kida |-> "キダ",
    kido |-> "キド",
    kijima |-> "キジマ",
    kiko |-> "キコ",
    kikuchi |-> "キクチ",
    kikuta |-> "キクタ",
    kimishima |-> "キミシマ",
    kimura |-> "キムラ",
    kinjo |-> "キンジョウ",
    kinoshita |-> "キノシタ",
    kinugawa |-> "キヌガワ",
    kira |-> "キラ",
    kirigaya |-> "キリガヤ",
    kiriyama |-> "キリヤマ",
    kise |-> "キセ",
    kishi |-> "キシ",
    kishima |-> "キシマ",
    kishimoto |-> "キシモト",
    kishino |-> "キシノ",
    kishita |-> "キシタ",
    kita |-> "キタ",
    kitabata |-> "キタバタ",
    kitada |-> "キタダ",
    kitagawa |-> "キタガワ",
    kitahara |-> "キタハラ",
    kitai |-> "キタイ",
    kitajima |-> "キタジマ",
    kitakaze |-> "キタカゼ",
    kitamura |-> "キタムラ",
    kitani |-> "キタニ",
    kitano |-> "キタノ",
    kitao |-> "キタオ",
    kitaoka |-> "キタオカ",
    kitayama |-> "キタヤマ",
    kitazono |-> "キタゾノ",
    kitsuka |-> "キツカ",
    kiuchi |-> "キウチ",
    kiyohara |-> "キヨハラ",
    kiyono |-> "キヨノ",
    kiyoshige |-> "キヨシゲ",
    kiyosue |-> "キヨスエ",
    koba |-> "コバ",
    kobara |-> "コバラ",
    kobata |-> "コバタ",
    kobayashi |-> "コバヤシ",
    kodaira |-> "コダイラ",
    kodama |-> "コダマ",
    kodera |-> "コデラ",
    koeda |-> "コエダ",
    koezuka |-> "コエズカ",
    koga |-> "コガ",
    kogame |-> "コガメ",
    kogo |-> "コウゴ",
    kogure |-> "コグレ",
    kohjitani |-> "コウジタニ",
    kohno |-> "コウノ",
    kohro |-> "コウロ",
    kohsaka |-> "コウサカ",
    kohyama |-> "コウヤマ",
    koide |-> "コイデ",
    koido |-> "コイド",
    koike |-> "コイケ",
    koitabashi |-> "コイタバシ",
    koiwa |-> "コイワ",
    koiwaya |-> "コイワヤ",
    koizumi |-> "コイズミ",
    kojima |-> "コジマ",
    kokubu |-> "コクブ",
    komaki |-> "コマキ",
    komasa |-> "コマサ",
    komatsu |-> "コマツ",
    komiya |-> "コミヤ",
    komiyama |-> "コミヤマ",
    komooka |-> "コモオカ",
    komori |-> "コモリ",
    komukai |-> "コムカイ",
    komuro |-> "コムロ",
    kondo |-> "コンドウ",
    kongoji |-> "コンゴウジ",
    konishi |-> "コニシ",
    konno |-> "コンノ",
    konta |-> "コンタ",
    korematsu |-> "コレマツ",
    kosedo |-> "コセドウ",
    kosuga |-> "コスガ",
    kosuge |-> "コスゲ",
    kosugi |-> "コスギ",
    kotani |-> "コタニ",
    kotoku |-> "コウトク",
    koura |-> "コウラ",
    kowatari |-> "コワタリ",
    koyama |-> "コヤマ",
    koyanagi |-> "コヤナギ",
    kozuka |-> "コズカ",
    kozuki |-> "コウズキ",
    kozuma |-> "コオズマ",
    kubo |-> "クボ",
    kubokawa |-> "クボカワ",
    kubota |-> "クボタ",
    kubozono |-> "クボゾノ",
    kudo |-> "クドウ",
    kuga |-> "クガ",
    kugiyama |-> "クギヤマ",
    kuji |-> "クジ",
    kujiraoka |-> "クジラオカ",
    kumada |-> "クマダ",
    kumagai |-> "クマガイ",
    kumamaru |-> "クママル",
    kume |-> "クメ",
    kunieda |-> "クニエダ",
    kunii |-> "クニイ",
    kunimasa |-> "クニマサ",
    kunimoto |-> "クニモト",
    kunimura |-> "クニムラ",
    kunioka |-> "クニオカ",
    kunisawa |-> "クニサワ",
    kuno |-> "クノ",
    kurahashi |-> "クラハシ",
    kuramitsu |-> "クラミツ",
    kuraoka |-> "クラオカ",
    kurata |-> "クラタ",
    kure |-> "クレ",
    kuribara |-> "クリバラ",
    kurihara |-> "クリハラ",
    kurimoto |-> "クリモト",
    kurita |-> "クリタ",
    kuriyama |-> "クリヤマ",
    kurobe |-> "クロベ",
    kuroda |-> "クロダ",
    kurogi |-> "クロギ",
    kuroi |-> "クロイ",
    kuroita |-> "クロイタ",
    kurosaki |-> "クロサキ",
    kurosawa |-> "クロサワ",
    kurozumi |-> "クロズミ",
    kusachi |-> "クサチ",
    kushida |-> "クシダ",
    kusuda |-> "クスダ",
    kusumoto |-> "クスモト",
    kusunose |-> "クスノセ",
    kusuyama |-> "クスヤマ",
    kutsuzawa |-> "クツザワ",
    kuwabara |-> "クワバラ",
    kuwahara |-> "クワハラ",
    kuwano |-> "クワノ",
    kuwata |-> "クワタ",
    kuyama |-> "クヤマ",
    kyodo |-> "キョウドウ",
    long |-> "ロン",
    mabuchi |-> "マブチ",
    machida |-> "マチダ",
    machino |-> "マチノ",
    maeba |-> "マエバ",
    maeda |-> "マエダ",
    maehara |-> "マエハラ",
    maejima |-> "マエジマ",
    maekawa |-> "マエカワ",
    maemura |-> "マエムラ",
    maenaka |-> "マエナカ",
    magota |-> "マゴタ",
    makabe |-> "マカベ",
    makimoto |-> "マキモト",
    makino |-> "マキノ",
    manabe |-> "マナベ",
    mano |-> "マノ",
    marubayashi |-> "マルバヤシ",
    maruhashi |-> "マルハシ",
    marui |-> "マルイ",
    maruo |-> "マルオ",
    maruta |-> "マルタ",
    maruyama |-> "マルヤマ",
    masada |-> "マサダ",
    masaki |-> "マサキ",
    masamura |-> "マサムラ",
    masawa |-> "マサワ",
    mase |-> "マセ",
    mastui |-> "マツイ",
    mastuoka |-> "マツオカ",
    masuda |-> "マスダ",
    masumura |-> "マスムラ",
    masuyama |-> "マスヤマ",
    matama |-> "マタマ",
    matoba |-> "マトバ",
    matsubara |-> "マツバラ",
    matsubayashi |-> "マツバヤシ",
    matsuda |-> "マツダ",
    matsue |-> "マツエ",
    matsuhama |-> "マツハマ",
    matsuhashi |-> "マツハシ",
    matsuhiro |-> "マツヒロ",
    matsuhisa |-> "マツヒサ",
    matsui |-> "マツイ",
    matsukage |-> "マツカゲ",
    matsukawa |-> "マツカワ",
    matsukura |-> "マツクラ",
    matsumaru |-> "マツマル",
    matsumiya |-> "マツミヤ",
    matsumoto |-> "マツモト",
    matsumura |-> "マツムラ",
    matsuna |-> "マツナ",
    matsunaga |-> "マツナガ",
    matsuno |-> "マツノ",
    matsuo |-> "マツオ",
    matsuoka |-> "マツオカ",
    matsusaka |-> "マツサカ",
    matsushima |-> "マツシマ",
    matsushita |-> "マツシタ",
    matsutani |-> "マツタニ",
    matsuura |-> "マツウラ",
    matsuwaki |-> "マツワキ",
    matsuyama |-> "マツヤマ",
    matsuzaki |-> "マツザキ",
    matsuzawa |-> "マツザワ",
    metoki |-> "メトキ",
    mibiki |-> "ミビキ",
    michikura |-> "ミチクラ",
    michishita |-> "ミチシタ",
    michiura |-> "ミチウラ",
    michiwaki |-> "ミチワキ",
    migita |-> "ミギタ",
    mihara |-> "ミハラ",
    mikami |-> "ミカミ",
    miki |-> "ミキ",
    minagawa |-> "ミナガワ",
    minami |-> "ミナミ",
    minamimoto |-> "ミナミモト",
    minamino |-> "ミナミノ",
    minamisawa |-> "ミナミサワ",
    minatoguchi |-> "ミナトグチ",
    minatoya |-> "ミナトヤ",
    minatsuki |-> "ミナツキ",
    mineki |-> "ミネキ",
    minematsu |-> "ミネマツ",
    mineo |-> "ミネオ",
    misaka |-> "ミサカ",
    misawa |-> "ミサワ",
    mishima |-> "ミシマ",
    misumi |-> "ミスミ",
    mita |-> "ミタ",
    mitamura |-> "ミタムラ",
    mito |-> "ミト",
    mitomo |-> "ミトモ",
    mitsuba |-> "ミツバ",
    mitsudo |-> "ミツドウ",
    mitsuhara |-> "ミツハラ",
    mitsuhashi |-> "ミツハシ",
    mitsui |-> "ミツイ",
    mitsuishi |-> "ミツイシ",
    mitsuke |-> "ミツケ",
    mitsumata |-> "ミツマタ",
    miura |-> "ミウラ",
    miwa |-> "ミワ",
    miyabe |-> "ミヤベ",
    miyachi |-> "ミヤチ",
    miyagawa |-> "ミヤガワ",
    miyagi |-> "ミヤギ",
    miyahara |-> "ミヤハラ",
    miyaji |-> "ミヤジ",
    miyajima |-> "ミヤジマ",
    miyake |-> "ミヤケ",
    miyama |-> "ミヤマ",
    miyamoto |-> "ミヤモト",
    miyanaga |-> "ミヤナガ",
    miyasaka |-> "ミヤサカ",
    miyashita |-> "ミヤシタ",
    miyata |-> "ミヤタ",
    miyauchi |-> "ミヤウチ",
    miyazaki |-> "ミヤザキ",
    miyazawa |-> "ミヤザワ",
    miyosawa |-> "ミヨサワ",
    miyoshi |-> "ミヨシ",
    mizobuchi |-> "ミゾブチ",
    mizokami |-> "ミゾカミ",
    mizota |-> "ミゾタ",
    mizote |-> "ミゾテ",
    mizuguchi |-> "ミズグチ",
    mizukami |-> "ミズカミ",
    mizuno |-> "ミズノ",
    mizunoya |-> "ミズノヤ",
    mizusawa |-> "ミズサワ",
    mizutani |-> "ミズタニ",
    mochidome |-> "モチドメ",
    mochizuki |-> "モチズキ",
    mogi |-> "モギ",
    momoi |-> "モモイ",
    monden |-> "モンデン",
    moniwa |-> "モニワ",
    mori |-> "モリ",
    moribayashi |-> "モリバヤシ",
    moriishi |-> "モリイシ",
    morikawa |-> "モリカワ",
    morimoto |-> "モリモト",
    morino |-> "モリノ",
    morioka |-> "モリオカ",
    morisaki |-> "モリサキ",
    morishige |-> "モリシゲ",
    morishima |-> "モリシマ",
    morishita |-> "モリシタ",
    morita |-> "モリタ",
    moriuchi |-> "モリウチ",
    moriwaki |-> "モリワキ",
    moriya |-> "モリヤ",
    moriyama |-> "モリヤマ",
    morofuji |-> "モロフジ",
    morota |-> "モロタ",
    motohashi |-> "モトハシ",
    motoki |-> "モトキ",
    motooka |-> "モトオカ",
    motoshima |-> "モトシマ",
    motoyama |-> "モトヤマ",
    motozawa |-> "モトザワ",
    mozawa |-> "モザワ",
    mukai |-> "ムカイ",
    mukaida |-> "ムカイダ",
    munakata |-> "ムナカタ",
    munehisa |-> "ムネヒサ",
    murai |-> "ムライ",
    muraishi |-> "ムライシ",
    murakami |-> "ムラカミ",
    murakawa |-> "ムラカワ",
    muramatsu |-> "ムラマツ",
    muraoka |-> "ムラオカ",
    murasato |-> "ムラサト",
    murase |-> "ムラセ",
    murata |-> "ムラタ",
    muro |-> "ムロ",
    murohara |-> "ムロハラ",
    murohashi |-> "ムロハシ",
    murotani |-> "ムロタニ",
    muroya |-> "ムロヤ",
    mushiake |-> "ムシアケ",
    muto |-> "ムトウ",
    mutoh |-> "ムトウ",
    mutsuga |-> "ムツガ",
    myojin |-> "ミョジン",
    nabeta |-> "ナベタ",
    nagae |-> "ナガエ",
    nagahara |-> "ナガハラ",
    nagai |-> "ナガイ",
    nagamatsu |-> "ナガマツ",
    nagamine |-> "ナガミネ",
    naganawa |-> "ナガナワ",
    nagano |-> "ナガノ",
    naganuma |-> "ナガヌマ",
    nagao |-> "ナガオ",
    nagasaka |-> "ナガサカ",
    nagasawa |-> "ナガサワ",
    nagase |-> "ナガセ",
    nagata |-> "ナガタ",
    nagatomo |-> "ナガトモ",
    nagoshi |-> "ナゴシ",
    nagumo |-> "ナグモ",
    naito |-> "ナイトウ",
    naka |-> "ナカ",
    nakachi |-> "ナカチ",
    nakada |-> "ナカダ",
    nakagami |-> "ナカガミ",
    nakagata |-> "ナカガタ",
    nakagawa |-> "ナカガワ",
    nakahara |-> "ナカハラ",
    nakahashi |-> "ナカハシ",
    nakai |-> "ナカイ",
    nakajima |-> "ナカジマ",
    nakama |-> "ナカマ",
    nakamae |-> "ナカマエ",
    nakamaru |-> "ナカマル",
    nakamura |-> "ナカムラ",
    nakanishi |-> "ナカニシ",
    nakano |-> "ナカノ",
    nakao |-> "ナカオ",
    nakaoka |-> "ナカオカ",
    nakase |-> "ナカセ",
    nakashima |-> "ナカシマ",
    nakasuka |-> "ナカスカ",
    nakata |-> "ナカタ",
    nakatani |-> "ナカタニ",
    nakatsuma |-> "ナカツマ",
    nakaura |-> "ナカウラ",
    nakayama |-> "ナカヤマ",
    nakayoshi |-> "ナカヨシ",
    nakazato |-> "ナカザト",
    nakazawa |-> "ナカザワ",
    namba |-> "ナンバ",
    namiki |-> "ナミキ",
    namiuchi |-> "ナミウチ",
    nanao |-> "ナナオ",
    nanasato |-> "ナナサト",
    nangoya |-> "ナンゴヤ",
    naniwa |-> "ナニワ",
    nanto |-> "ナント",
    narita |-> "ナリタ",
    narui |-> "ナルイ",
    narukawa |-> "ナルカワ",
    naruse |-> "ナルセ",
    nasu |-> "ナス",
    natsuaki |-> "ナツアキ",
    natsukawa |-> "ナツカワ",
    natsumeda |-> "ナツメダ",
    nawada |-> "ナワダ",
    negishi |-> "ネギシ",
    neishi |-> "ネイシ",
    niida |-> "ニイダ",
    niimi |-> "ニイミ",
    niinami |-> "ニイナミ",
    niitsuma |-> "ニイツマ",
    niiyama |-> "ニイヤマ",
    niizeki |-> "ニイゼキ",
    nikaido |-> "ニカイドウ",
    ninomiya |-> "ニノミヤ",
    nishi |-> "ニシ",
    nishida |-> "ニシダ",
    nishiguchi |-> "ニシグチ",
    nishihata |-> "ニシハタ",
    nishihira |-> "ニシヒラ",
    nishijima |-> "ニシジマ",
    nishikawa |-> "ニシカワ",
    nishikura |-> "ニシクラ",
    nishimiya |-> "ニシミヤ",
    nishimizu |-> "ニシミズ",
    nishimori |-> "ニシモリ",
    nishimoto |-> "ニシモト",
    nishimura |-> "ニシムラ",
    nishina |-> "ニシナ",
    nishino |-> "ニシノ",
    nishio |-> "ニシオ",
    nishioka |-> "ニシオカ",
    nishiura |-> "ニシウラ",
    nishiya |-> "ニシヤ",
    nishiyama |-> "ニシヤマ",
    nishizaki |-> "ニシザキ",
    nishizawa |-> "ニシザワ",
    nitta |-> "ニッタ",
    niwa |-> "ニワ",
    nobuta |-> "ノブタ",
    nochioka |-> "ノチオカ",
    noda |-> "ノダ",
    node |-> "ノデ",
    nogami |-> "ノガミ",
    nogi |-> "ノギ",
    noguchi |-> "ノグチ",
    nohara |-> "ノハラ",
    noike |-> "ノイケ",
    noiri |-> "ノイリ",
    nojiri |-> "ノジリ",
    noma |-> "ノマ",
    nomi |-> "ノミ",
    nomoto |-> "ノモト",
    nomura |-> "ノムラ",
    nonaka |-> "ノナカ",
    nonogi |-> "ノノギ",
    norita |-> "ノリタ",
    nosaka |-> "ノサカ",
    notake |-> "ノタケ",
    nozaki |-> "ノザキ",
    nozato |-> "ノザト",
    nozoe |-> "ノゾエ",
    nuki |-> "ヌキ",
    numahata |-> "ヌマハタ",
    numajiri |-> "ヌマジリ",
    numao |-> "ヌマオ",
    numasawa |-> "ヌマサワ",
    numata |-> "ヌマタ",
    oba |-> "オオバ",
    obara |-> "オバラ",
    obata |-> "オバタ",
    obayashi |-> "オオバヤシ",
    obi |-> "オビ",
    obunai |-> "オブナイ",
    ochi |-> "オチ",
    ochiai |-> "オチアイ",
    ochiumi |-> "オチウミ",
    oda |-> "オダ",
    odagiri |-> "オダギリ",
    odanaka |-> "オダナカ",
    oe |-> "オエ",
    ogaku |-> "オガク",
    ogasawara |-> "オガサワラ",
    ogata |-> "オガタ",
    ogawa |-> "オガワ",
    ogimoto |-> "オギモト",
    ogita |-> "オギタ",
    oguma |-> "オグマ",
    ogura |-> "オグラ",
    oguri |-> "オグリ",
    ohama |-> "オオハマ",
    ohara |-> "オオハラ",
    ohashi |-> "オオハシ",
    ohata |-> "オオハタ",
    ohba |-> "オオバ",
    ohbe |-> "オオベ",
    ohe |-> "オオエ",
    ohga |-> "オウガ",
    ohguchi |-> "オオグチ",
    ohguro |-> "オオグロ",
    ohi |-> "オオイ",
    ohira |-> "オオヒラ",
    ohishi |-> "オオイシ",
    ohkawa |-> "オオカワ",
    ohki |-> "オオキ",
    ohkita |-> "オオキタ",
    ohkubo |-> "オオクボ",
    ohkura |-> "オオクラ",
    ohmori |-> "オオモリ",
    ohnishi |-> "オオニシ",
    ohno |-> "オオノ",
    ohota |-> "オホタ",
    ohsaka |-> "オオサカ",
    ohsawa |-> "オオサワ",
    ohshima |-> "オオシマ",
    ohshiro |-> "オオシロ",
    ohsuga |-> "オオスガ",
    ohsugi |-> "オオスギ",
    ohsumi |-> "オオスミ",
    ohta |-> "オオタ",
    ohtaka |-> "オウタカ",
    ohtake |-> "オオタケ",
    ohtani |-> "オオタニ",
    ohtomo |-> "オオトモ",
    ohuchi |-> "オオウチ",
    ohwada |-> "オオワダ",
    ohwaki |-> "オオワキ",
    ohya |-> "オオヤ",
    ohyama |-> "オオヤマ",
    oikawa |-> "オイカワ",
    oishi |-> "オオイシ",
    oiwa |-> "オオイワ",
    oizumi |-> "オオイズミ",
    oka |-> "オカ",
    okabe |-> "オカベ",
    okada |-> "オカダ",
    okai |-> "オカイ",
    okajima |-> "オカジマ",
    okamatsu |-> "オカマツ",
    okamoto |-> "オカモト",
    okamura |-> "オカムラ",
    okata |-> "オカタ",
    okayama |-> "オカヤマ",
    okazaki |-> "オカザキ",
    okazawa |-> "オカザワ",
    oketani |-> "オケタニ",
    oki |-> "オオキ",
    okina |-> "オキナ",
    okino |-> "オキノ",
    okita |-> "オキタ",
    okonogi |-> "オコノギ",
    okoshi |-> "オオコシ",
    oku |-> "オク",
    okubo |-> "オオクボ",
    okuda |-> "オクダ",
    okui |-> "オクイ",
    okumoto |-> "オクモト",
    okumura |-> "オクムラ",
    okuno |-> "オクノ",
    okura |-> "オオクラ",
    okutsu |-> "オオクツ",
    okuyama |-> "オクヤマ",
    omori |-> "オオモリ",
    omote |-> "オモテ",
    omura |-> "オオムラ",
    omuro |-> "オムロ",
    onish |-> "オオニシ",
    onishi |-> "オオニシ",
    ono |-> "オノ",
    onodera |-> "オノデラ",
    onoue |-> "オノウエ",
    onozato |-> "オノザト",
    onuma |-> "オヌマ",
    ooba |-> "オオバ",
    oobayashi |-> "オオバヤシ",
    oochi |-> "オオチ",
    oodate |-> "オオダテ",
    oogaku |-> "オオガク",
    ooguchi |-> "オオグチ",
    ooguro |-> "オオグロ",
    oohara |-> "オオハラ",
    oohashi |-> "オオハシ",
    ooi |-> "オオイ",
    ookawa |-> "オオカワ",
    ookita |-> "オオキタ",
    ookubo |-> "オオクボ",
    oomori |-> "オオモリ",
    oomura |-> "オオムラ",
    oonishi |-> "オオニシ",
    oono |-> "オオノ",
    oosaka |-> "オオサカ",
    oosaki |-> "オオサキ",
    oosawa |-> "オオサワ",
    ooshima |-> "オオシマ",
    oosugi |-> "オオスギ",
    oouchi |-> "オオウチ",
    oowada |-> "オオワダ",
    ooya |-> "オオヤ",
    oozato |-> "オオザト",
    orihashi |-> "オリハシ",
    osaka |-> "オオサカ",
    osakada |-> "オサカダ",
    osaki |-> "オサキ",
    osawa |-> "オオサワ",
    oshida |-> "オシダ",
    oshima |-> "オオシマ",
    oshino |-> "オシノ",
    oshinomi |-> "オシノミ",
    oshita |-> "オシタ",
    oshitomi |-> "オシトミ",
    osuga |-> "オスガ",
    osumi |-> "オオスミ",
    ota |-> "オオタ",
    otaka |-> "オタカ",
    otake |-> "オオタケ",
    otaki |-> "オオタキ",
    otani |-> "オオタニ",
    otomo |-> "オオトモ",
    otowa |-> "オトワ",
    otsuba |-> "オオツバ",
    otsubo |-> "オオツボ",
    otsuji |-> "オオツジ",
    otsuka |-> "オオツカ",
    otsuki |-> "オオツキ",
    ouchi |-> "オオウチ",
    oura |-> "オオウラ",
    owa |-> "オワ",
    oyama |-> "オヤマ",
    oyatani |-> "オヤタニ",
    oyoshi |-> "オオヨシ",
    ozaki |-> "オザキ",
    ozasa |-> "オザサ",
    ozawa |-> "オザワ",
    ozono |-> "オオゾノ",
    ozu |-> "オズ",
    riku |-> "リク",
    saburi |-> "サブリ",
    sada |-> "サダ",
    sadachi |-> "サダチ",
    sadamatsu |-> "サダマツ",
    saeki |-> "サエキ",
    sago |-> "サゴ",
    sahashi |-> "サハシ",
    sai |-> "サイ",
    saigan |-> "サイガン",
    saigusa |-> "サイグサ",
    saiin |-> "サイイン",
    saiki |-> "サイキ",
    saito |-> "サイトウ",
    saitoh |-> "サイトウ",
    saji |-> "サヂ",
    saka |-> "サカ",
    sakagami |-> "サカガミ",
    sakaguchi |-> "サカグチ",
    sakai |-> "サカイ",
    sakaino |-> "サカイノ",
    sakakura |-> "サカクラ",
    sakamoto |-> "サカモト",
    sakane |-> "サカネ",
    sakata |-> "サカタ",
    sakaue |-> "サカウエ",
    sakio |-> "サキオ",
    sakon |-> "サコン",
    saku |-> "サク",
    sakui |-> "サクイ",
    sakuma |-> "サクマ",
    sakurada |-> "サクラダ",
    sakurai |-> "サクライ",
    sambe |-> "サン§",
    sangen |-> "サンゲン",
    sano |-> "サノ",
    sanomura |-> "サノムラ",
    sanui |-> "サヌイ",
    saotome |-> "サオトメ",
    sarai |-> "サライ",
    sasabuchi |-> "ササブチ",
    sasahira |-> "ササヒラ",
    sasaki |-> "ササキ",
    sasano |-> "ササノ",
    sasaoka |-> "ササオカ",
    sata |-> "サタ",
    sato |-> "サトウ",
    satogami |-> "サトガミ",
    satoh |-> "サトウ",
    satomi |-> "サトミ",
    satow |-> "サトウ",
    satsurai |-> "サツライ",
    sawabata |-> "サワバタ",
    sawada |-> "サワダ",
    sawaguchi |-> "サワグチ",
    sawano |-> "サワノ",
    sawanobori |-> "サワノボリ",
    sawatani |-> "サワタニ",
    sawatari |-> "サワタリ",
    sawayama |-> "サワヤマ",
    sayama |-> "サヤマ",
    segawa |-> "セガワ",
    seguchi |-> "セグチ",
    seike |-> "セイケ",
    seiyama |-> "セイヤマ",
    seki |-> "セキ",
    sekido |-> "セキド",
    sekiguchi |-> "セキグチ",
    sekimoto |-> "セキモト",
    seno |-> "セノ",
    senoo |-> "セノオ",
    seo |-> "セオ",
    serikawa |-> "セリカワ",
    setake |-> "セタケ",
    seto |-> "セト",
    setogawa |-> "セトガワ",
    setoguchi |-> "セトグチ",
    setoyama |-> "セトヤマ",
    shiba |-> "シバ",
    shibahashi |-> "シバハシ",
    shibasaki |-> "シバサキ",
    shibata |-> "シバタ",
    shibui |-> "シブイ",
    shibutani |-> "シブタニ",
    shigematsu |-> "シゲマツ",
    shigemoto |-> "シゲモト",
    shigeta |-> "シゲタ",
    shigetoshi |-> "シゲトシ",
    shigihara |-> "シギハラ",
    shiina |-> "シイナ",
    shiiya |-> "シイヤ",
    shikanai |-> "シカナイ",
    shiko |-> "シコ",
    shima |-> "シマ",
    shimabukuro |-> "シマブクロ",
    shimada |-> "シマダ",
    shimahara |-> "シマハラ",
    shimamoto |-> "シマモト",
    shimamura |-> "シマムラ",
    shimazaki |-> "シマザキ",
    shimazu |-> "シマズ",
    shimizu |-> "シミズ",
    shimoda |-> "シモダ",
    shimoji |-> "シモジ",
    shimojo |-> "シモジョウ",
    shimokawa |-> "シモカワ",
    shimomura |-> "シモムラ",
    shimonaga |-> "シモナガ",
    shimono |-> "シモノ",
    shimosato |-> "シモサト",
    shimoyama |-> "シモヤマ",
    shimozawa |-> "シモザワ",
    shimura |-> "シムラ",
    shinboku |-> "シンボク",
    shindo |-> "シンドウ",
    shinke |-> "シンケ",
    shinmura |-> "シンムラ",
    shinoda |-> "シノダ",
    shinohara |-> "シノハラ",
    shinozaki |-> "シノザキ",
    shintaku |-> "シンタク",
    shintani |-> "シンタニ",
    shiode |-> "シオデ",
    shiohira |-> "シオヒラ",
    shioji |-> "シオジ",
    shiojima |-> "シオジマ",
    shiokawa |-> "シオカワ",
    shiomi |-> "シオミ",
    shiomura |-> "シオムラ",
    shiono |-> "シオノ",
    shiozaki |-> "シオザキ",
    shiozawa |-> "シオザワ",
    shirahama |-> "シラハマ",
    shirai |-> "シライ",
    shiraishi |-> "シライシ",
    shirakabe |-> "シラカベ",
    shiraki |-> "シラキ",
    shirasaka |-> "シラサカ",
    shirasaki |-> "シラサキ",
    shiroshita |-> "シロシタ",
    shirota |-> "シロタ",
    shirotani |-> "シロタニ",
    shiroto |-> "シロト",
    shishido |-> "シシド",
    shishikura |-> "シシクラ",
    shitan |-> "シタン",
    shitara |-> "シタラ",
    shite |-> "シテ",
    shizuta |-> "シズタ",
    shoda |-> "ショウダ",
    shoji |-> "ショウジ",
    shojima |-> "ショウジマ",
    shoumura |-> "ショウムラ",
    shutta |-> "シュッタ",
    sindo |-> "シンドウ",
    sobue |-> "ソブエ",
    soeda |-> "ソエダ",
    soejima |-> "ソエジマ",
    soga |-> "ソガ",
    sogabe |-> "ソガベ",
    sogo |-> "ソゴウ",
    sohma |-> "ソウマ",
    soma |-> "ソマ",
    sone |-> "ソネ",
    sonoda |-> "ソノダ",
    sorimachi |-> "ソリマチ",
    sotomi |-> "ソトミ",
    suda |-> "スダ",
    sudo |-> "スドウ",
    suematsu |-> "スエマツ",
    sueta |-> "スエタ",
    suga |-> "スガ",
    sugae |-> "スガエ",
    sugane |-> "スガネ",
    sugano |-> "スガノ",
    sugawara |-> "スガワラ",
    sugaya |-> "スガヤ",
    sugie |-> "スギエ",
    sugihara |-> "スギハラ",
    sugimoto |-> "スギモト",
    sugimura |-> "スギムラ",
    sugino |-> "スギノ",
    sugitani |-> "スギタニ",
    sugiura |-> "スギウラ",
    sugiyama |-> "スギヤマ",
    sugizaki |-> "スギザキ",
    suguro |-> "スグロ",
    sukeda |-> "スケダ",
    sukehiro |-> "スケヒロ",
    sumida |-> "スミダ",
    sumii |-> "スミイ",
    sumimoto |-> "スミモト",
    sumita |-> "スミタ",
    sumitsuji |-> "スミツジ",
    sumiyoshi |-> "スミヨシ",
    suna |-> "スナ",
    sunaga |-> "スナガ",
    sunamura |-> "スナムラ",
    sunohara |-> "スノハラ",
    suwa |-> "スワ",
    suzuki |-> "スズキ",
    tabata |-> "タバタ",
    tabita |-> "タビタ",
    tabuchi |-> "タブチ",
    tachibana |-> "タチバナ",
    tachimori |-> "タチモリ",
    tada |-> "タダ",
    tadano |-> "タダノ",
    tadokoro |-> "タドコロ",
    tagawa |-> "タガワ",
    taguchi |-> "タグチ",
    taguri |-> "タグリ",
    tahara |-> "タハラ",
    taira |-> "タイラ",
    tajima |-> "タジマ",
    takada |-> "タカダ",
    takae |-> "タカエ",
    takafumi |-> "タカフミ",
    takagaki |-> "タカガキ",
    takagi |-> "タカギ",
    takahama |-> "タカハマ",
    takahara |-> "タカハラ",
    takahashi |-> "タカハシ",
    takahata |-> "タカハタ",
    takaki |-> "タカキ",
    takama |-> "タカマ",
    takamatsu |-> "タカマツ",
    takami |-> "タカミ",
    takamisawa |-> "タカミサワ",
    takamiya |-> "タカミヤ",
    takamizawa |-> "タカミザワ",
    takamura |-> "タカムラ",
    takano |-> "タカノ",
    takaoka |-> "タカオカ",
    takasaki |-> "タカサキ",
    takase |-> "タカセ",
    takashima |-> "タカシマ",
    takashio |-> "タカシオ",
    takasu |-> "タカス",
    takata |-> "タカタ",
    takatsu |-> "タカツ",
    takaya |-> "タカヤ",
    takayama |-> "タカヤマ",
    takebayashi |-> "タケバヤシ",
    takeda |-> "タケダ",
    takegami |-> "タケガミ",
    takehara |-> "タケハラ",
    takei |-> "タケイ",
    takeishi |-> "タケイシ",
    takeji |-> "タケジ",
    takekawa |-> "タケカワ",
    takemoto |-> "タケモト",
    takemura |-> "タケムラ",
    takenaka |-> "タケナカ",
    takenouchi |-> "タケノウチ",
    takenoya |-> "タケノヤ",
    takeshita |-> "タケシタ",
    takeuchi |-> "タケウチ",
    takewa |-> "タケワ",
    takeyama |-> "タケヤマ",
    takigami |-> "タキガミ",
    takiguchi |-> "タキグチ",
    takii |-> "タキイ",
    takita |-> "タキタ",
    takou |-> "タコウ",
    takuma |-> "タクマ",
    takumi |-> "タクミ",
    takura |-> "タクラ",
    tama |-> "タマ",
    tamada |-> "タマダ",
    tamaki |-> "タマキ",
    tamanaha |-> "タマナハ",
    tambara |-> "タバラ",
    taminishi |-> "タミニシ",
    tamoto |-> "タモト",
    tamura |-> "タムラ",
    tanabe |-> "タナベ",
    tanaka |-> "タナカ",
    tang |-> "タン",
    tani |-> "タニ",
    tanichi |-> "タニチ",
    tanigaki |-> "タニガキ",
    tanigawa |-> "タニガワ",
    taniguchi |-> "タニグチ",
    tanimoto |-> "タニモト",
    tanimura |-> "タニムラ",
    taninobu |-> "タニノブ",
    tanisawa |-> "タニサワ",
    tanita |-> "タニタ",
    taniuchi |-> "タニウチ",
    taniwaki |-> "タニワキ",
    tanizaki |-> "タニザキ",
    tanouchi |-> "タノウチ",
    tao |-> "タオ",
    taomoto |-> "タオモト",
    tara |-> "タラ",
    taruya |-> "タルヤ",
    tasaka |-> "タサカ",
    tashima |-> "タシマ",
    tashiro |-> "タシロ",
    tatami |-> "タタミ",
    tateishi |-> "タテイシ",
    tateyama |-> "タテヤマ",
    tatsugami |-> "タツガミ",
    tatsumi |-> "タツミ",
    tatsushima |-> "タツシマ",
    tawara |-> "タワラ",
    tawarahara |-> "タワラハラ",
    tayama |-> "タヤマ",
    tazaki |-> "タザキ",
    tazawa |-> "タザワ",
    terada |-> "テラダ",
    terai |-> "テライ",
    terajima |-> "テラジマ",
    teramura |-> "テラムラ",
    terao |-> "テラオ",
    terasaka |-> "テラサカ",
    terashita |-> "テラシタ",
    terauchi |-> "テラウチ",
    terui |-> "テルイ",
    teshima |-> "テシマ",
    tezuka |-> "テズカ",
    toba |-> "トバ",
    tobari |-> "トバリ",
    tobaru |-> "トバル",
    tobe |-> "トベ",
    tobita |-> "トビタ",
    tochiya |-> "トチヤ",
    toda |-> "トダ",
    todoroki |-> "トドロキ",
    toguchi |-> "トグチ",
    toh |-> "トウ",
    tohara |-> "トハラ",
    toida |-> "トイダ",
    tojo |-> "トウジョウ",
    tokai |-> "トウカイ",
    tokano |-> "トカノ",
    tokashiki |-> "トカシキ",
    tokioka |-> "トキオカ",
    tokita |-> "トキタ",
    tokuda |-> "トクダ",
    tokuhisa |-> "トクヒサ",
    tokunaga |-> "トクナガ",
    tokuno |-> "トクノ",
    tokushige |-> "トクシゲ",
    tokuyama |-> "トクヤマ",
    toma |-> "トマ",
    tomii |-> "トミイ",
    tominaga |-> "トミナガ",
    tomita |-> "トミタ",
    tomoda |-> "トモダ",
    tomotsuka |-> "トモツカ",
    tomura |-> "トムラ",
    tonomura |-> "トノムラ",
    torii |-> "トリイ",
    torikoshi |-> "トリコシ",
    toriya |-> "トリヤ",
    tosaka |-> "トサカ",
    toshihiro |-> "トシヒロ",
    toshiki |-> "トシキ",
    toshima |-> "トシマ",
    toubaru |-> "トウバル",
    toya |-> "トヤ",
    toyama |-> "トヤマ",
    toyoda |-> "トヨダ",
    toyofuku |-> "トヨフク",
    toyoshima |-> "トヨシマ",
    toyota |-> "トヨタ",
    tsubakimoto |-> "ツバキモト",
    tsubata |-> "ツバタ",
    tsuboi |-> "ツボイ",
    tsubono |-> "ツボノ",
    tsuboyama |-> "ツボヤマ",
    tsuchida |-> "ツチダ",
    tsuchikane |-> "ツチカネ",
    tsuchiya |-> "ツチヤ",
    tsuchiyama |-> "ツチヤマ",
    tsuda |-> "ツダ",
    tsudome |-> "ツドメ",
    tsugawa |-> "ツガワ",
    tsugita |-> "ツギタ",
    tsugu |-> "ツグ",
    tsuji |-> "ツジ",
    tsujihata |-> "ツジハタ",
    tsujimoto |-> "ツジモト",
    tsujimura |-> "ツジムラ",
    tsujino |-> "ツジノ",
    tsujita |-> "ツジタ",
    tsukada |-> "ツカダ",
    tsukahara |-> "ツカハラ",
    tsukamoto |-> "ツカモト",
    tsukinowa |-> "ツキノワ",
    tsukiyama |-> "ツキヤマ",
    tsukui |-> "ツクイ",
    tsumaru |-> "ツマル",
    tsunaki |-> "ツナキ",
    tsunamoto |-> "ツナモト",
    tsuneyoshi |-> "ツネヨシ",
    tsunoda |-> "ツノダ",
    tsuru |-> "ツル",
    tsuruda |-> "ツルダ",
    tsuruta |-> "ツルタ",
    tsushima |-> "ツシマ",
    tsutsui |-> "ツツイ",
    tsutsumi |-> "ツツミ",
    uchida |-> "ウチダ",
    uchigata |-> "ウチガタ",
    uchino |-> "ウチノ",
    uchio |-> "ウチオ",
    uchiyama |-> "ウチヤマ",
    ueda |-> "ウエダ",
    uegaito |-> "ウエガイト",
    uehara |-> "ウエハラ",
    ueki |-> "ウエキ",
    uematsu |-> "ウエマツ",
    uemura |-> "ウエムラ",
    ueno |-> "ウエノ",
    ueshima |-> "ウエシマ",
    uesugi |-> "ウエスギ",
    ueyama |-> "ウエヤマ",
    ugawa |-> "ウガワ",
    ukai |-> "ウカイ",
    ukawa |-> "ウカワ",
    ukita |-> "ウキタ",
    umeda |-> "ウメダ",
    umemoto |-> "ウメモト",
    umemura |-> "ウメムラ",
    umetani |-> "ウメタニ",
    umino |-> "ウミノ",
    une |-> "ウネ",
    uno |-> "ウノ",
    unoki |-> "ウノキ",
    urabe |-> "ウラベ",
    uranaka |-> "ウラナカ",
    urata |-> "ウラタ",
    urushida |-> "ウルシダ",
    usami |-> "ウサミ",
    ushijima |-> "ウシジマ",
    usuda |-> "ウスダ",
    usui |-> "ウスイ",
    usuku |-> "ウスク",
    usumoto |-> "ウスモト",
    uwatoko |-> "ウワトコ",
    uzu |-> "ウズ",
    uzui |-> "ウズイ",
    wada |-> "ワダ",
    wakabayashi |-> "ワカバヤシ",
    wakami |-> "ワカミ",
    wakana |-> "ワカナ",
    wakasa |-> "ワカサ",
    wakatsuki |-> "ワカツキ",
    wake |-> "ワケ",
    waki |-> "ワキ",
    wakita |-> "ワキタ",
    wakugawa |-> "ワクガワ",
    wanezaki |-> "ワネザキ",
    warisawa |-> "ワリサワ",
    waseda |-> "ワセダ",
    washima |-> "ワシマ",
    washimi |-> "ワシミ",
    washiyama |-> "ワシヤマ",
    watabe |-> "ワタベ",
    watanabe |-> "ワタナベ",
    watarai |-> "ワタライ",
    yabe |-> "ヤベ",
    yabumoto |-> "ヤブモト",
    yabushita |-> "ヤブシタ",
    yagasaki |-> "ヤガサキ",
    yagi |-> "ヤギ",
    yagihashi |-> "ヤギハシ",
    yaginuma |-> "ヤギヌマ",
    yaguchi |-> "ヤグチ",
    yahagi |-> "ヤハギ",
    yahata |-> "ヤハタ",
    yahikozawa |-> "ヤヒコザワ",
    yajima |-> "ヤジマ",
    yaku |-> "ヤク",
    yakushiji |-> "ヤクシジ",
    yamabe |-> "ヤマベ",
    yamada |-> "ヤマダ",
    yamagami |-> "ヤマガミ",
    yamaguchi |-> "ヤマグチ",
    yamaji |-> "ヤマジ",
    yamakage |-> "ヤマカゲ",
    yamakami |-> "ヤマカミ",
    yamakawa |-> "ヤマカワ",
    yamaki |-> "ヤマキ",
    yamamoto |-> "ヤマモト",
    yamamura |-> "ヤマムラ",
    yamana |-> "ヤマナ",
    yamanaga |-> "ヤマナガ",
    yamanaka |-> "ヤマナカ",
    yamane |-> "ヤマネ",
    yamano |-> "ヤマノ",
    yamasaki |-> "ヤマサキ",
    yamase |-> "ヤマセ",
    yamashina |-> "ヤマシナ",
    yamashiro |-> "ヤマシロ",
    yamashita |-> "ヤマシタ",
    yamato |-> "ヤマト",
    yamauchi |-> "ヤマウチ",
    yamawaki |-> "ヤマワキ",
    yamaya |-> "ヤマヤ",
    yamazaki |-> "ヤマザキ",
    yanagawa |-> "ヤナガワ",
    yanagi |-> "ヤナギ",
    yanaka |-> "ヤナカ",
    yanishi |-> "ヤニシ",
    yano |-> "ヤノ",
    yao |-> "ヤオ",
    yara |-> "ヤラ",
    yashige |-> "ヤシゲ",
    yashima |-> "ヤシマ",
    yasu |-> "ヤス",
    yasuda |-> "ヤスダ",
    yasuhara |-> "ヤスハラ",
    yasui |-> "ヤスイ",
    yasumoto |-> "ヤスモト",
    yasumura |-> "ヤスムラ",
    yasunaga |-> "ヤスナガ",
    yatsu |-> "ヤツ",
    yatsuda |-> "ヤツダ",
    yatsuya |-> "ヤツヤ",
    yoda |-> "ヨダ",
    yokoi |-> "ヨコイ",
    yokomatsu |-> "ヨコマツ",
    yokomine |-> "ヨコミネ",
    yokoo |-> "ヨコオ",
    yokota |-> "ヨコタ",
    yokoya |-> "ヨコヤ",
    yokoyama |-> "ヨコヤマ",
    yonamine |-> "ヨナミネ",
    yoneda |-> "ヨネダ",
    yoneoka |-> "ヨネオカ",
    yonetsu |-> "ヨネツ",
    yoneyama |-> "ヨネヤマ",
    yonezawa |-> "ヨネザワ",
    yonezu |-> "ヨネズ",
    yoshida |-> "ヨシダ",
    yoshihara |-> "ヨシハラ",
    yoshihisa |-> "ヨシヒサ",
    yoshijima |-> "ヨシジマ",
    yoshikai |-> "ヨシカイ",
    yoshikawa |-> "ヨシカワ",
    yoshiki |-> "ヨシキ",
    yoshimachi |-> "ヨシマチ",
    yoshimitsu |-> "ヨシミツ",
    yoshimoto |-> "ヨシモト",
    yoshimura |-> "ヨシムラ",
    yoshinaga |-> "ヨシナガ",
    yoshino |-> "ヨシノ",
    yoshioka |-> "ヨシオカ",
    yoshitani |-> "ヨシタニ",
    yoshitomi |-> "ヨシトミ",
    yoshiura |-> "ヨシウラ",
    yoshizaki |-> "ヨシザキ",
    yoshizane |-> "ヨシザネ",
    yoshizawa |-> "ヨシザワ",
    yoshizumi |-> "ヨシズミ",
    yuasa |-> "ユアサ",
    yufu |-> "ユフ",
    yuge |-> "ユゲ",
    yui |-> "ユイ",
    yuki |-> "ユキ",
    yumoto |-> "ユモト",
    yunoki |-> "ユノキ",
    yuri |-> "ユリ",
    yutani |-> "ユタニ",
    yuzawa |-> "ユザワ",
    zaima |-> "ザイマ",
    zuguchi |-> "ズグチ" ]

\* Given-name overrides (a key listed twice keeps its last value).
KATAKANA_FIRSTNAME_OVERRIDE ==
  [ ai |-> "アイ",
    aina |-> "アイナ",
    akane |-> "アカネ",
    akashi |-> "アカシ",
    aki |-> "アキ",
    akifumi |-> "アキフミ",
    akihiko |-> "アキヒコ",
    akihiro |-> "アキヒロ",
    akihito |-> "アキヒト",
    akiko |-> "アキコ",
    akimasa |-> "アキマサ",
    akinori |-> "アキノリ",
    akio |-> "アキオ",
    akiomi |-> "アキオミ",
    akira |-> "アキラ",
    akiteru |-> "アキテル",
    akito |-> "アキト",
    akitoshi |-> "アキトシ",
    akiyoshi |-> "アキヨシ",
    amane |-> "アマネ",
    ami |-> "アミ",
    anna |-> "アンナ",
    arano |-> "アラノ",
    arata |-> "アラタ",
    arihiro |-> "アリヒロ",
    aritaka |-> "アリタカ",
    aritomo |-> "アリトモ",
    asahiro |-> "アサヒロ",
    asami |-> "アサミ",
    asataro |-> "アサタロウ",
    atomu |-> "アトム",
    atsuhiko |-> "アツヒコ",
    atsuhiro |-> "アツヒロ",
    atsuki |-> "アツキ",
    atsuko |-> "アツコ",
    atsumi |-> "アツミ",
    atsunori |-> "アツノリ",
    atsuo |-> "アツオ",
    atsushi |-> "アツシ",
    atsutaka |-> "アツタカ",
    atsuya |-> "アツヤ",
    atsuyoshi |-> "アツヨシ",
    atsuyuki |-> "アツユキ",
    aya |-> "アヤ",
    ayaka |-> "アヤカ",
    ayako |-> "アヤコ",
    ayane |-> "アヤネ",
    ayano |-> "アヤノ",
    ayumi |-> "アユミ",
    ayumu |-> "アユム",
    azusa |-> "アズサ",
    chiaki |-> "チアキ",
    chie |-> "チエ",
    chietsugu |-> "チエツグ",
    chiharu |-> "チハル",
    chika |-> "チカ",
    chikai |-> "チカイ",
    chikako |-> "チカコ",
    chikao |-> "チカオ",
    chikara |-> "チカラ",
    chisato |-> "チサト",
    dai |-> "ダイ",
    daichi |-> "ダイチ",
    daigo |-> "ダイゴ",
    daijiro |-> "ダイジロウ",
    daiju |-> "ダイジュ",
    daiki |-> "ダイキ",
    daisaku |-> "ダイサク",
    daishi |-> "ダイシ",
    daisuke |-> "ダイスケ",
    daitaro |-> "ダイタロウ",
    eigo |-> "エイゴ",
    eiichi |-> "エイイチ",
    eiichiro |-> "エイイチロウ",
    eiji |-> "エイジ",
    eiki |-> "エイキ",
    eiko |-> "エイコ",
    eiryu |-> "エイリュウ",
    eisaku |-> "エイサク",
    eisei |-> "エイセイ",
    eisuke |-> "エイスケ",
    eizo |-> "エイゾウ",
    emi |-> "エミ",
    eri |-> "エリ",
    erika |-> "エリカ",
    etsu |-> "エツ",
    etsuji |-> "エツジ",
    etsuko |-> "エツコ",
    etsumi |-> "エツミ",
    etsuo |-> "エツオ",
    fujio |-> "フジオ",
    fumiaki |-> "フミアキ",
    fumie |-> "フミエ",
    fumiharu |-> "フミハル",
    fumika |-> "フミカ",
    fuminari |-> "フミナリ",
    fuminobu |-> "フミノブ",
    fumitaka |-> "フミタカ",
    fumitoshi |-> "フミトシ",
    fumiya |-> "フミヤ",
    fumiyasu |-> "フミヤス",
    fumiyuki |-> "フミユキ",
    futoshi |-> "フトシ",
    gaku |-> "ガク",
    genki |-> "ゲンキ",
    genryu |-> "ゲンリュウ",
    giichi |-> "ギイチ",
    go |-> "ゴウ",
    goro |-> "ゴロウ",
    hajime |-> "ハジメ",
    haruhiko |-> "ハルヒコ",
    haruhito |-> "ハルヒト",
    haruka |-> "ハルカ",
    harukazu |-> "ハルカズ",
    haruki |-> "ハルキ",
    harumi |-> "ハルミ",
    haruo |-> "ハルオ",
    harutoshi |-> "ハルトシ",
    haruya |-> "ハルヤ",
    haruyuki |-> "ハルユキ",
    hayashi |-> "ハヤシ",
    hayato |-> "ハヤト",
    heima |-> "ヘイマ",
    heitaro |-> "ヘイタロウ",
    hideaki |-> "ヒデアキ",
    hidefumi |-> "ヒデフミ",
    hideharu |-> "ヒデハル",
    hidehiko |-> "ヒデヒコ",
    hideichi |-> "ヒデイチ",
    hidekazu |-> "ヒデカズ",
    hideki |-> "ヒデキ",
    hidekuni |-> "ヒデクニ",
    hidemaro |-> "ヒデマロ",
    hidemasa |-> "ヒデマサ",
    hidemori |-> "ヒデモリ",
    hidenari |-> "ヒデナリ",
    hidenobu |-> "ヒデノブ",
    hidenori |-> "ヒデノリ",
    hideo |-> "ヒデオ",
    hidesato |-> "ヒデサト",
    hideshi |-> "ヒデシ",
    hidetaka |-> "ヒデタカ",
    hideto |-> "ヒデト",
    hidetomo |-> "ヒデトモ",
    hidetoshi |-> "ヒデトシ",
    hidetsugu |-> "ヒデツグ",
    hideya |-> "ヒデヤ",
    hideyuki |-> "ヒデユキ",
    hikaru |-> "ヒカル",
    himika |-> "ヒミカ",
    hiraku |-> "ヒラク",
    hiroaki |-> "ヒロアキ",
    hirofumi |-> "ヒロフミ",
    hiroharu |-> "ヒロハル",
    hirohide |-> "ヒロヒデ",
    hirohiko |-> "ヒロヒコ",
    hirohisa |-> "ヒロヒサ",
    hirohito |-> "ヒロヒト",
    hirokazu |-> "ヒロカズ",
    hiroki |-> "ヒロキ",
    hirokuni |-> "ヒロクニ",
    hiromasa |-> "ヒロマサ",
    hiromi |-> "ヒロミ",
    hiromichi |-> "ヒロミチ",
    hiromitsu |-> "ヒロミツ",
    hiromoto |-> "ヒロモト",
    hiromu |-> "ヒロム",
    hironaga |-> "ヒロナガ",
    hironobu |-> "ヒロノブ",
    hironori |-> "ヒロノリ",
    hirooki |-> "ヒロオキ",
    hirosada |-> "ヒロサダ",
    hirosato |-> "ヒロサト",
    hiroshi |-> "ヒロシ",
    hirosuke |-> "ヒロスケ",
    hirota |-> "ヒロタ",
    hirotaka |-> "ヒロタカ",
    hirotake |-> "ヒロタケ",
    hiroto |-> "ヒロト",
    hirotoshi |-> "ヒロトシ",
    hirotsugu |-> "ヒロツグ",
    hiroya |-> "ヒロヤ",
    hiroyasu |-> "ヒロヤス",
    hiroyo |-> "ヒロヨ",
    hiroyoshi |-> "ヒロヨシ",
    hiroyuki |-> "ヒロユキ",
    hisaaki |-> "ヒサアキ",
    hisahiko |-> "ヒサヒコ",
    hisahito |-> "ヒサヒト",
    hisaki |-> "ヒサキ",
    hisako |-> "ヒサコ",
    hisanori |-> "ヒサノリ",
    hisao |-> "ヒサオ",
    hisashi |-> "ヒサシ",
    hisateru |-> "ヒサテル",
    hisato |-> "ヒサト",
    hisatomi |-> "ヒサトミ",
    hisayuki |-> "ヒサユキ",
    hitomi |-> "ヒトミ",
    hitoshi |-> "ヒトシ",
    hoshito |-> "ホシト",
    hyuma |-> "ヒュマ",
    ichiro |-> "イチロウ",
    ichitaro |-> "イチタロウ",
    iichiro |-> "イイチロウ",
    ikuko |-> "イクコ",
    ikumi |-> "イクミ",
    ikuo |-> "イクオ",
    ippei |-> "イッペイ",
    isamu |-> "イサム",
    isao |-> "イサオ",
    issei |-> "イッセイ",
    itaru |-> "イタル",
    itsuro |-> "イツロウ",
    itta |-> "イッタ",
    iwao |-> "イワオ",
    jin |-> "ジン",
    jiro |-> "ジロウ",
    jo |-> "ジョウ",
    joh |-> "ジョウ",
    joji |-> "ジョウジ",
    jota |-> "ジョウタ",
    jumpei |-> "ジュンペイ",
    jun |-> "ジュン",
    junichi |-> "ジュンイチ",
    junichiro |-> "ジュンイチロウ",
    junji |-> "ジュンジ",
    junjiro |-> "ジュンジロウ",
    junki |-> "ジュンキ",
    junko |-> "ジュンコ",
    junya |-> "ジュンヤ",
    juri |-> "ジュリ",
    jyunki |-> "ユンキ",
    kaho |-> "カホ",
    kahori |-> "カホリ",
    kai |-> "カイ",
    kaihara |-> "カイハラ",
    kaito |-> "カイト",
    kakuya |-> "カクヤ",
    kan |-> "カン",
    kana |-> "カナ",
    kanae |-> "カナエ",
    kanako |-> "カナコ",
    kaneto |-> "カネト",
    kanichi |-> "カンイチ",
    kanta |-> "カンタ",
    kantaro |-> "カンタロウ",
    kaori |-> "カオリ",
    kaoru |-> "カオル",
    kasumi |-> "カスミ",
    katsuaki |-> "カツアキ",
    katsuhiko |-> "カツヒコ",
    katsuhiro |-> "カツヒロ",
    katsuhisa |-> "カツヒサ",
    katsuhito |-> "カツヒト",
    katsuji |-> "カツジ",
    katsuki |-> "カツキ",
    katsuko |-> "カツコ",
    katsumi |-> "カツミ",
    katsunori |-> "カツノリ",
    katsuomi |-> "カツオミ",
    katsuro |-> "カツロウ",
    katsushi |-> "カツシ",
    katsutaka |-> "カツタカ",
    katsutoshi |-> "カツトシ",
    katsuya |-> "カツヤ",
    katsuyoshi |-> "カツヨシ",
    katsuyuki |-> "カツユキ",
    kawai |-> "カワイ",
    kayo |-> "カヨ",
    kazuaki |-> "カズアキ",
    kazufumi |-> "カズフミ",
    kazuhide |-> "カズヒデ",
    kazuhiko |-> "カズヒコ",
    kazuhiro |-> "カズヒロ",
    kazuhisa |-> "カズヒサ",
    kazuho |-> "カズホ",
    kazuki |-> "カズキ",
    kazuma |-> "カズマ",
    kazumasa |-> "カズマサ",
    kazumaza |-> "カズマザ",
    kazumi |-> "カズミ",
    kazumiki |-> "カズミキ",
    kazunari |-> "カズナリ",
    kazunori |-> "カズノリ",
    kazuo |-> "カズオ",
    kazuoki |-> "カズオキ",
    kazuomi |-> "カズオミ",
    kazushi |-> "カズシ",
    kazushige |-> "カズシゲ",
    kazutaka |-> "カズタカ",
    kazuteru |-> "カズテル",
    kazuto |-> "カズト",
    kazutoshi |-> "カズトシ",
    kazuya |-> "カズヤ",
    kazuyasu |-> "カズヤス",
    kazuyoshi |-> "カズヨシ",
    kazuyuki |-> "カズユキ",
    kei |-> "ケイ",
    keigo |-> "ケイゴ",
    keiichi |-> "ケイイチ",
    keiichiro |-> "ケイイチロウ",
    keiji |-> "ケイジ",
    keijiro |-> "ケイジロウ",
    keiki |-> "ケイキ",
    keiko |-> "ケイコ",
    keishi |-> "ケイシ",
    keisuke |-> "ケイスケ",
    keita |-> "ケイタ",
    keizo |-> "ケイゾ",
    ken |-> "ケン",
    kengo |-> "ケンゴ",
    kenichi |-> "ケンイチ",
    kenichiro |-> "ケンイチロウ",
    kenji |-> "ケンジ",
    kensaku |-> "ケンサク",
    kenshi |-> "ケンシ",
    kensho |-> "ケンショウ",
    kensuke |-> "ケンスケ",
    kenta |-> "ケンタ",
    kentaro |-> "ケンタロウ",
    kento |-> "ケント",
    kenya |-> "ケンヤ",
    kenzo |-> "ケンゾウ",
    kikuo |-> "キクオ",
    kimiaki |-> "キミアキ",
    kiminori |-> "キミノリ",
    kimito |-> "キミト",
    kimitoshi |-> "キミトシ",
    kinya |-> "キンヤ",
    kinzo |-> "キンゾウ",
    kisaki |-> "キサキ",
    kiu |-> "キウ",
    kiwamu |-> "キワム",
    kiyohide |-> "キヨヒデ",
    kiyohisa |-> "キヨヒサ",
    kiyokazu |-> "キヨカズ",
    kiyoko |-> "キヨコ",
    kiyomitsu |-> "キヨミツ",
    kiyoshi |-> "キヨシ",
    kiyota |-> "キヨタ",
    kiyotaka |-> "キヨタカ",
    kiyotomi |-> "キヨトミ",
    kiyotoshi |-> "キヨトシ",
    ko |-> "コウ",
    kodai |-> "コウダイ",
    koh |-> "コウ",
    kohei |-> "コウヘイ",
    kohki |-> "コウキ",
    koichi |-> "コウイチ",
    koichiro |-> "コウイチロウ",
    koji |-> "コウジ",
    koki |-> "コウキ",
    konosuke |-> "コウノスケ",
    korehito |-> "コレヒト",
    kosei |-> "コウセイ",
    koshi |-> "コウシ",
    koshiro |-> "コウシロウ",
    kosuke |-> "コウスケ",
    kota |-> "コウタ",
    kotaro |-> "コウタロウ",
    koto |-> "コト",
    kou |-> "コウ",
    koudai |-> "コウダイ",
    kouhei |-> "コウヘイ",
    kouichi |-> "コウイチ",
    kouji |-> "コウジ",
    kouki |-> "コウキ",
    kousuke |-> "コウスケ",
    kouya |-> "コウヤ",
    koya |-> "コウヤ",
    koyama |-> "コヤマ",
    kozo |-> "コウゾウ",
    kumiko |-> "クミコ",
    kuniaki |-> "クニアキ",
    kunihiko |-> "クニヒコ",
    kunihiro |-> "クニヒロ",
    kunimitsu |-> "クニミツ",
    kuninobu |-> "クニノブ",
    kunio |-> "クニオ",
    kuniya |-> "クニヤ",
    kuniyasu |-> "クニヤス",
    kuniyoshi |-> "クニヨシ",
    kuniyuki |-> "クニユキ",
    kurara |-> "クララ",
    kuya |-> "クウヤ",
    kyo |-> "キョウ",
    kyohei |-> "キョウヘイ",
    kyoichi |-> "キョウイチ",
    kyoji |-> "キョウジ",
    kyoko |-> "キョウコ",
    machiko |-> "マチコ",
    madoka |-> "マドカ",
    mafumi |-> "マフミ",
    mai |-> "マイ",
    maiko |-> "マイコ",
    maki |-> "マキ",
    makiko |-> "マキコ",
    makio |-> "マキオ",
    makishi |-> "マキシ",
    makoto |-> "マコト",
    mamoru |-> "マモル",
    mana |-> "マナ",
    manabu |-> "マナブ",
    manami |-> "マナミ",
    mao |-> "マオ",
    maoto |-> "マオト",
    mareka |-> "マレカ",
    marenao |-> "マレナオ",
    mari |-> "マリ",
    mariko |-> "マリコ",
    marina |-> "マリナ",
    marohito |-> "マロヒト",
    masaaki |-> "マサアキ",
    masafumi |-> "マサフミ",
    masaharu |-> "マサハル",
    masahide |-> "マサヒデ",
    masahiko |-> "マサヒコ",
    masahiro |-> "マサヒロ",
    masahisa |-> "マサヒサ",
    masahito |-> "マサヒト",
    masakatsu |-> "マサカツ",
    masakazu |-> "マサカズ",
    masaki |-> "マサキ",
    masakiyo |-> "マサキヨ",
    masako |-> "マサコ",
    masami |-> "マサミ",
    masamichi |-> "マサミチ",
    masamitsu |-> "マサミツ",
    masanaga |-> "マサナガ",
    masanao |-> "マサナオ",
    masanari |-> "マサナリ",
    masanobu |-> "マサノブ",
    masanori |-> "マサノリ",
    masao |-> "マサオ",
    masaoki |-> "マサオキ",
    masaomi |-> "マサオミ",
    masaru |-> "マサル",
    masashi |-> "マサシ",
    masashiro |-> "マサシロ",
    masataka |-> "マサタカ",
    masatake |-> "マサタケ",
    masateru |-> "マサテル",
    masato |-> "マサト",
    masatoshi |-> "マサトシ",
    masatsugu |-> "マサツグ",
    masaya |-> "マサヤ",
    masayasu |-> "マサヤス",
    masayoshi |-> "マサヨシ",
    masayuki |-> "マサユキ",
    mashio |-> "マシオ",
    maya |-> "マヤ",
    mayu |-> "マユ",
    mayuko |-> "マユコ",
    megumi |-> "メグミ",
    mei |-> "メイ",
    michiaki |-> "ミチアキ",
    michifumi |-> "ミチフミ",
    michihiko |-> "ミチヒコ",
    michihiro |-> "ミチヒロ",
    michihito |-> "ミチヒト",
    michika |-> "ミチカ",
    michikazu |-> "ミチカズ",
    michiko |-> "ミチコ",
    michinari |-> "ミチナリ",
    michinobu |-> "ミチノブ",
    michio |-> "ミチオ",
    michiro |-> "ミチロウ",
    michiya |-> "ミチヤ",
    michiyo |-> "ミチヨ",
    migaku |-> "ミガク",
    miho |-> "ミホ",
    mikako |-> "ミカコ",
    mike |-> "マイク",
    miki |-> "ミキ",
    mikihiro |-> "ミキヒロ",
    mikihito |-> "ミキヒト",
    mikiko |-> "ミキコ",
    mikio |-> "ミキオ",
    mikizo |-> "ミキゾウ",
    minako |-> "ミナコ",
    minami |-> "ミナミ",
    minao |-> "ミナオ",
    minori |-> "ミノリ",
    minoru |-> "ミノル",
    mio |-> "ミオ",
    mirei |-> "ミレイ",
    miri |-> "ミリ",
    misa |-> "ミサ",
    misaki |-> "ミサキ",
    misato |-> "ミサト",
    mistuhiko |-> "ミトゥヒコ",
    mitsuaki |-> "ミツアキ",
    mitsuhiko |-> "ミツヒコ",
    mitsuhiro |-> "ミツヒロ",
    mitsukuni |-> "ミツクニ",
    mitsumasa |-> "ミツマサ",
    mitsunori |-> "ミツノリ",
    mitsuo |-> "ミツオ",
    mitsuru |-> "ミツル",
    mitsutaka |-> "ミツタカ",
    mitsutoshi |-> "ミツトシ",
    mitsuya |-> "ミツヤ",
    mitsuyoshi |-> "ミツヨシ",
    miwa |-> "ミワ",
    mizuhiko |-> "ミズヒコ",
    mizuho |-> "ミズホ",
    mizuki |-> "ミズキ",
    moeko |-> "モエコ",
    momo |-> "モモ",
    moriaki |-> "モリアキ",
    morihiko |-> "モリヒコ",
    morimasa |-> "モリマサ",
    morio |-> "モリオ",
    motoaki |-> "モトアキ",
    motoharu |-> "モトハル",
    motohiro |-> "モトヒロ",
    motoki |-> "モトキ",
    motomu |-> "モトム",
    motoshi |-> "モトシ",
    motosu |-> "モトス",
    mototsugu |-> "モトツグ",
    motoyoshi |-> "モトヨシ",
    munehiro |-> "ムネヒロ",
    munenori |-> "ムネノリ",
    munetaka |-> "ムネタカ",
    mustumi |-> "ムツミ",
    mutsumi |-> "ムツミ",
    mutsuo |-> "ムツオ",
    myong |-> "ミョン",
    nagataka |-> "ナガタカ",
    nagi |-> "ナギ",
    namio |-> "ナミオ",
    nana |-> "ナナ",
    nao |-> "ナオ",
    naoaki |-> "ナオアキ",
    naoei |-> "ナオエイ",
    naofumi |-> "ナオフミ",
    naohiko |-> "ナオヒコ",
    naohiro |-> "ナオヒロ",
    naohisa |-> "ナオヒサ",
    naohito |-> "ナオヒト",
    naoki |-> "ナオキ",
    naoko |-> "ナオコ",
    naomi |-> "ナオミ",
    naomichi |-> "ナオミチ",
    naonori |-> "ナオノリ",
    naotaka |-> "ナオタカ",
    naotake |-> "ナオタケ",
    naoto |-> "ナオト",
    naotoshi |-> "ナオトシ",
    naoya |-> "ナオヤ",
    naoyuki |-> "ナオユキ",
    naritsugu |-> "ナリツグ",
    naruhiko |-> "ナルヒコ",
    narumi |-> "ナルミ",
    natsuhiko |-> "ナツヒコ",
    natsuhiro |-> "ナツヒロ",
    natsuko |-> "ナツコ",
    natsumi |-> "ナツミ",
    natsuya |-> "ナツヤ",
    nehiro |-> "ネヒロ",
    neiko |-> "ネイコ",
    nobu |-> "ノブ",
    nobuaki |-> "ノブアキ",
    nobuhide |-> "ノブヒデ",
    nobuhiko |-> "ノブヒコ",
    nobuhiro |-> "ノブヒロ",
    nobuhisa |-> "ノブヒサ",
    nobuhito |-> "ノブヒト",
    nobuki |-> "ノブキ",
    nobunari |-> "ノブナリ",
    nobuo |-> "ノブオ",
    nobushige |-> "ノブシゲ",
    nobutaka |-> "ノブタカ",
    nobuyasu |-> "ノブヤス",
    nobuyuki |-> "ノブユキ",
    noriaki |-> "ノリアキ",
    norifumi |-> "ノリフミ",
    norihiko |-> "ノリヒコ",
    norihiro |-> "ノリヒロ",
    norihisa |-> "ノリヒサ",
    norihito |-> "ノリヒト",
    norikazu |-> "ノリカズ",
    noriko |-> "ノリコ",
    norimasa |-> "ノリマサ",
    norimichi |-> "ノリミチ",
    norio |-> "ノリオ",
    noritaka |-> "ノリタカ",
    noritomo |-> "ノリトモ",
    noritoshi |-> "ノリトシ",
    noriya |-> "ノリヤ",
    noriyasu |-> "ノリヤス",
    noriyoshi |-> "ノリヨシ",
    noriyuki |-> "ノリユキ",
    nozomi |-> "ノゾミ",
    nozomu |-> "ノゾム",
    onichi |-> "オンイチ",
    osamu |-> "オサム",
    otohime |-> "オトヒメ",
    raisuke |-> "ライスケ",
    raita |-> "ライタ",
    ran |-> "ラン",
    reiji |-> "レイジ",
    reiko |-> "レイコ",
    reina |-> "レイナ",
    ren |-> "レン",
    rensuke |-> "レンスケ",
    reo |-> "レオ",
    rie |-> "リエ",
    rihito |-> "リヒト",
    rika |-> "リカ",
    riku |-> "リク",
    rikuo |-> "リクオ",
    rikuta |-> "リクタ",
    rikuya |-> "リクヤ",
    rin |-> "リン",
    rine |-> "リネ",
    rintaro |-> "リンタロウ",
    rishi |-> "リシ",
    rissei |-> "リッセイ",
    ruiko |-> "ルイコ",
    ruka |-> "ルカ",
    ryo |-> "リョウ",
    ryohei |-> "リョウヘイ",
    ryoichi |-> "リョウイチ",
    ryoji |-> "リョウジ",
    ryoko |-> "リョウコ",
    ryoma |-> "リョウマ",
    ryosuke |-> "リョウスケ",
    ryota |-> "リョウタ",
    ryotaro |-> "リョウタロウ",
    ryou |-> "リョウ",
    ryouhei |-> "リョウヘイ",
    ryousuke |-> "リョウスケ",
    ryozo |-> "リョウゾウ",
    ryu |-> "リュウ",
    ryuhei |-> "リュヘイ",
    ryuichi |-> "リュウイチ",
    ryuichiro |-> "リュウイチロウ",
    ryuji |-> "リュウジ",
    ryuki |-> "リュウキ",
    ryusuke |-> "リュウスケ",
    ryutaro |-> "リュウタロウ",
    ryuusuke |-> "リュウスケ",
    ryuzaburo |-> "リュウザブロウ",
    ryuzo |-> "リュウゾウ",
    saburo |-> "サブロウ",
    sachiko |-> "サチコ",
    sachiro |-> "サチロ",
    sadaharu |-> "サダハル",
    sadako |-> "サダコ",
    sadanori |-> "サダノリ",
    saeko |-> "サエコ",
    saiko |-> "サイコ",
    sakae |-> "サカエ",
    saki |-> "サキ",
    sakiko |-> "サキコ",
    sakura |-> "サクラ",
    sakuramaru |-> "サクラマル",
    sanae |-> "サナエ",
    saori |-> "サオリ",
    sara |-> "サラ",
    satoaki |-> "サトアキ",
    satoki |-> "サトキ",
    satoko |-> "サトコ",
    satomi |-> "サトミ",
    satori |-> "サトリ",
    satoru |-> "サトル",
    satoshi |-> "サトシ",
    satsuki |-> "サツキ",
    saya |-> "サヤ",
    sayaka |-> "サヤカ",
    sayano |-> "サヤノ",
    sayumi |-> "サユミ",
    sei |-> "セイ",
    seigo |-> "セイゴ",
    seiichi |-> "セイイチ",
    seiichiro |-> "セイイチロウ",
    seiji |-> "セイジ",
    seijiro |-> "セイジロウ",
    seita |-> "セイタ",
    seitaro |-> "セイタロウ",
    seiya |-> "セイヤ",
    setsu |-> "セツ",
    setsuyuki |-> "セツユキ",
    shigehiko |-> "シゲヒコ",
    shigehiro |-> "シゲヒロ",
    shigeki |-> "シゲキ",
    shigemitsu |-> "シゲミツ",
    shigenobu |-> "シゲノブ",
    shigenori |-> "シゲノリ",
    shigeo |-> "シゲオ",
    shigeomi |-> "シゲオミ",
    shigeru |-> "シゲル",
    shigeshi |-> "シゲシ",
    shigetaka |-> "シゲタカ",
    shigeto |-> "シゲト",
    shigetoshi |-> "シゲトシ",
    shigeyasu |-> "シゲヤス",
    shigeyoshi |-> "シゲヨシ",
    shiho |-> "シホ",
    shihoko |-> "シホコ",
    shimpei |-> "シンペイ",
    shin |-> "シン",
    shingo |-> "シンゴ",
    shinichi |-> "シンイチ",
    shinichiro |-> "シンイチロウ",
    shinji |-> "シンジ",
    shinjo |-> "シンジョウ",
    shinnosuke |-> "シンノスケ",
    shinrou |-> "シンロウ",
    shinsuke |-> "シンスケ",
    shinta |-> "シンタ",
    shintaro |-> "シンタロウ",
    shinya |-> "シンヤ",
    shiori |-> "シオリ",
    shiro |-> "シロウ",
    shirou |-> "シロウ",
    sho |-> "ショウ",
    shodai |-> "ショウダイ",
    shogo |-> "ショウゴ",
    shohei |-> "ショウヘイ",
    shoichi |-> "ショウイチ",
    shoichiro |-> "ショウイチロウ",
    shoji |-> "ショウジ",
    shojiro |-> "ショウジロウ",
    shoko |-> "ショウコ",
    shota |-> "ショウタ",
    shotaro |-> "ショウタロウ",
    shozo |-> "ショウゾウ",
    shu |-> "シュウ",
    shuhei |-> "シュウヘイ",
    shuichi |-> "シュウイチ",
    shuichiro |-> "シュウイチロウ",
    shuji |-> "シュウジ",
    shujiro |-> "シュウジロウ",
    shuko |-> "シュウコ",
    shumpei |-> "シュンペイ",
    shun |-> "シュン",
    shunbun |-> "シュンブン",
    shungo |-> "シュンゴ",
    shunich |-> "シュンイチ",
    shunichi |-> "シュンイチ",
    shunichiro |-> "シュンイチロウ",
    shunji |-> "シュンジ",
    shunsuke |-> "シュンスケ",
    shunta |-> "シュンタ",
    shuntaro |-> "シュンタロウ",
    shunya |-> "シュンヤ",
    shuro |-> "シュウロウ",
    shusaku |-> "シュウサク",
    shusuke |-> "シュウスケ",
    shuta |-> "シュウタ",
    so |-> "ソウ",
    sohsuke |-> "ソウスケ",
    soichi |-> "ソウイチ",
    soichiro |-> "ソウイチロウ",
    soken |-> "ソケン",
    sonoka |-> "ソノカ",
    soshi |-> "ソシ",
    soshiro |-> "ソウシロウ",
    sota |-> "ソウタ",
    sou |-> "ソウ",
    suga |-> "スガ",
    suguru |-> "スグル",
    sumio |-> "スミオ",
    sunao |-> "スナオ",
    susumu |-> "ススム",
    suwako |-> "スワコ",
    suzu |-> "スズ",
    syotaro |-> "ショウタロウ",
    syuntaro |-> "シュンタロウ",
    tadaaki |-> "タダアキ",
    tadahiro |-> "タダヒロ",
    tadakazu |-> "タダカズ",
    tadao |-> "タダオ",
    tadashi |-> "タダシ",
    tadateru |-> "タダテル",
    tadayuki |-> "タダユキ",
    taeko |-> "タエコ",
    taichi |-> "タイチ",
    taiji |-> "タイジ",
    taikan |-> "タイカン",
    taiki |-> "タイキ",
    tairo |-> "タイロウ",
    taishi |-> "タイシ",
    taisuke |-> "タイスケ",
    taito |-> "タイト",
    taiyo |-> "タイヨウ",
    taizo |-> "タイゾウ",
    takaaki |-> "タカアキ",
    takafumi |-> "タカフミ",
    takaharu |-> "タカハル",
    takahide |-> "タカヒデ",
    takahiko |-> "タカヒコ",
    takahiro |-> "タカヒロ",
    takahisa |-> "タカヒサ",
    takahito |-> "タカヒト",
    takaki |-> "タカアキ",
    takako |-> "タカコ",
    takamasa |-> "タカマサ",
    takamitsu |-> "タカミツ",
    takanari |-> "タカナリ",
    takanobu |-> "タカノブ",
    takanori |-> "タカノリ",
    takao |-> "タカオ",
    takashi |-> "タカシ",
    takashige |-> "タカシゲ",
    takatomo |-> "タカトモ",
    takatoshi |-> "タカトシ",
    takatoyo |-> "タカトヨ",
    takayo |-> "タカヨ",
    takayoshi |-> "タカヨシ",
    takayuki |-> "タカユキ",
    takeaki |-> "タケアキ",
    takefumi |-> "タケフミ",
    takehiko |-> "タケヒコ",
    takehiro |-> "タケヒロ",
    takenao |-> "タケナオ",
    takenobu |-> "タケノブ",
    takenori |-> "タケノリ",
    takeo |-> "タケオ",
    takeru |-> "タケル",
    takeshi |-> "タケシ",
    takeshige |-> "タケシゲ",
    taketo |-> "タケト",
    taketoshi |-> "タケトシ",
    takeyoshi |-> "タケヨシ",
    takeyuki |-> "タケユキ",
    taku |-> "タク",
    takuji |-> "タクジ",
    takuma |-> "タクマ",
    takumi |-> "タクミ",
    takunori |-> "タクノリ",
    takuo |-> "タクオ",
    takuro |-> "タクロウ",
    takuto |-> "タクト",
    takuya |-> "タクヤ",
    tamahiro |-> "タマヒロ",
    tamaki |-> "タマキ",
    tamiko |-> "タミコ",
    tamio |-> "タミオ",
    tamiyuki |-> "タミユキ",
    tamon |-> "タモン",
    taro |-> "タロウ",
    tasuku |-> "タスク",
    tatsuhiko |-> "タツヒコ",
    tatsuhiro |-> "タツヒロ",
    tatsuhisa |-> "タツヒサ",
    tatsuji |-> "タツジ",
    tatsuki |-> "タツキ",
    tatsunori |-> "タツノリ",
    tatsuo |-> "タツオ",
    tatsuro |-> "タツロウ",
    tatsushi |-> "タツシ",
    tatsuto |-> "タツト",
    tatsuya |-> "タツヤ",
    teisuke |-> "テイスケ",
    tenjin |-> "テンジン",
    teruaki |-> "テルアキ",
    teruhiko |-> "テルヒコ",
    teruhiro |-> "テルヒロ",
    teruki |-> "テルキ",
    terumasa |-> "テルマサ",
    terumitsu |-> "テルミツ",
    terumori |-> "テルモリ",
    terumoto |-> "テルモト",
    teruo |-> "テルオ",
    teruyasu |-> "テルヤス",
    teruyoshi |-> "テルヨシ",
    tetsu |-> "テツ",
    tetsuharu |-> "テツハル",
    tetsuhiro |-> "テツヒロ",
    tetsuhisa |-> "テツヒサ",
    tetsuichi |-> "テツイチ",
    tetsuji |-> "テツジ",
    tetsuo |-> "テツオ",
    tetsuro |-> "テツロウ",
    tetsuya |-> "テツヤ",
    tetsuzo |-> "テツゾウ",
    tohru |-> "トオル",
    tokuhiro |-> "トクヒロ",
    tokutada |-> "トクタダ",
    tomiharu |-> "トミハル",
    tomihisa |-> "トミヒサ",
    tomo |-> "トモ",
    tomoaki |-> "トモアキ",
    tomofumi |-> "トモフミ",
    tomoharu |-> "トモハル",
    tomohiko |-> "トモヒコ",
    tomohiro |-> "トモヒロ",
    tomohisa |-> "トモヒサ",
    tomokazu |-> "トモカズ",
    tomoki |-> "トモキ",
    tomoko |-> "トモコ",
    tomomi |-> "トモミ",
    tomonori |-> "トモノリ",
    tomoo |-> "トモオ",
    tomotaka |-> "トモタカ",
    tomotsugu |-> "トモツグ",
    tomoya |-> "トモヤ",
    tomoyo |-> "トモヨ",
    tomoyuki |-> "トモユキ",
    toraaki |-> "トラアキ",
    toru |-> "トオル",
    toshi |-> "トシ",
    toshiaki |-> "トシアキ",
    toshifumi |-> "トシフミ",
    toshiharu |-> "トシハル",
    toshihide |-> "トシヒデ",
    toshihiko |-> "トシヒコ",
    toshihiro |-> "トシヒロ",
    toshihisa |-> "トシヒサ",
    toshikazu |-> "トシカズ",
    toshiki |-> "トシキ",
    toshiko |-> "トシコ",
    toshimasa |-> "トシマサ",
    toshimitsu |-> "トシミツ",
    toshio |-> "トシオ",
    toshiro |-> "トシロウ",
    toshitaka |-> "トシタカ",
    toshiya |-> "トシヤ",
    toshiyuki |-> "トシユキ",
    toyoaki |-> "トヨアキ",
    toyoki |-> "トヨキ",
    tsugumi |-> "ツグミ",
    tsukasa |-> "ツカサ",
    tsunekazu |-> "ツネカズ",
    tsuneki |-> "ツネキ",
    tsunenari |-> "ツネナリ",
    tsuneo |-> "ツネオ",
    tsunetatsu |-> "ツネタツ",
    tsutomu |-> "ツトム",
    tsuyoshi |-> "ツヨシ",
    uichi |-> "ウイチ",
    umihiko |-> "ウミヒコ",
    wakana |-> "ワカナ",
    wakaya |-> "ワカヤ",
    wataru |-> "ワタル",
    yae |-> "ヤエ",
    yamato |-> "ヤマト",
    yasuaki |-> "ヤスアキ",
    yasuchika |-> "ヤスチカ",
    yasufumi |-> "ヤスフミ",
    yasuharu |-> "ヤスハル",
    yasuhide |-> "ヤスヒデ",
    yasuhiko |-> "ヤスヒコ",
    yasuhiro |-> "ヤスヒロ",
    yasuhisa |-> "ヤスヒサ",
    yasuhito |-> "ヤスヒト",
    yasuki |-> "ヤスキ",
    yasuko |-> "ヤスコ",
    yasumasa |-> "ヤスマサ",
    yasumi |-> "ヤスミ",
    yasunari |-> "ヤスナリ",
    yasunobu |-> "ヤスノブ",
    yasunori |-> "ヤスノリ",
    yasuo |-> "ヤスオ",
    yasuomi |-> "ヤスオミ",
    yasushi |-> "ヤスシ",
    yasutaka |-> "ヤスタカ",
    yasutomi |-> "ヤストミ",
    yasutomo |-> "ヤストモ",
    yasutoshi |-> "ヤストシ",
    yasutsugu |-> "ヤスツグ",
    yasuya |-> "ヤスヤ",
    yasuyo |-> "ヤスヨ",
    yasuyuki |-> "ヤスユキ",
    yayoi |-> "ヤヨイ",
    yo |-> "ヨウ",
    yodo |-> "ヨウドウ",
    yohei |-> "ヨウヘイ",
    yohsuke |-> "ヨウスケ",
    yoichi |-> "ヨウイチ",
    yoichiro |-> "ヨウイチロウ",
    yoji |-> "ヨウジ",
    yoko |-> "ヨウコ",
    yoku |-> "ヨク",
    yorihiko |-> "ヨリヒコ",
    yoritaka |-> "ヨリタカ",
    yoriyasu |-> "ヨリヤス",
    yoshiaki |-> "ヨシアキ",
    yoshifumi |-> "ヨシフミ",
    yoshifusa |-> "ヨシフサ",
    yoshiharu |-> "ヨシハル",
    yoshihide |-> "ヨシヒデ",
    yoshihiko |-> "ヨシヒコ",
    yoshihiro |-> "ヨシヒロ",
    yoshihisa |-> "ヨシヒサ",
    yoshihito |-> "ヨシヒト",
    yoshikazu |-> "ヨシカズ",
    yoshiki |-> "ヨシキ",
    yoshiko |-> "ヨシコ",
    yoshimasa |-> "ヨシマサ",
    yoshimi |-> "ヨシミ",
    yoshimitsu |-> "ヨシミツ",
    yoshinari |-> "ヨシナリ",
    yoshinobu |-> "ヨシノブ",
    yoshinori |-> "ヨシノリ",
    yoshio |-> "ヨシオ",
    yoshiro |-> "ヨシロウ",
    yoshisato |-> "ヨシサト",
    yoshisuke |-> "ヨシスケ",
    yoshitaka |-> "ヨシタカ",
    yoshitake |-> "ヨシタケ",
    yoshiteru |-> "ヨシテル",
    yoshito |-> "ヨシト",
    yoshitsugu |-> "ヨシツグ",
    yoshiya |-> "ヨシヤ",
    yoshiyasu |-> "ヨシヤス",
    yoshiyuki |-> "ヨシユキ",
    yosuke |-> "ヨウスケ",
    yota |-> "ヨウタ",
    youichi |-> "ヨウイチ",
    yousuke |-> "ヨウスケ",
    yu |-> "ユウ",
    yudai |-> "ユウダイ",
    yuetsu |-> "ユウエツ",
    yugo |-> "ユウゴ",
    yuhei |-> "ユウヘイ",
    yui |-> "ユイ",
    yuichi |-> "ユウイチ",
    yuichiro |-> "ユウイチロウ",
    yuichirou |-> "ユウイチロウ",
    yuji |-> "ユウジ",
    yujiro |-> "ユウジロウ",
    yuki |-> "ユキ",
    yukichi |-> "ユキチ",
    yukie |-> "ユキエ",
    yukihiko |-> "ユキヒコ",
    yukihiro |-> "ユキヒロ",
    yukihito |-> "ユキヒト",
    yukiko |-> "ユキコ",
    yukinori |-> "ユキノリ",
    yukio |-> "ユキオ",
    yuko |-> "ユウコ",
    yuma |-> "ユウマ",
    yumi |-> "ユミ",
    yumika |-> "ユミカ",
    yumiko |-> "ユミコ",
    yunosuke |-> "ユウノスケ",
    yuriko |-> "ユリコ",
    yusaku |-> "ユウサク",
    yushi |-> "ユウシ",
    yusuke |-> "ユウスケ",
    yuta |-> "ユウタ",
    yutaka |-> "ユタカ",
    yutaro |-> "ユウタロウ",
    yuto |-> "ユウト",
    yuuki |-> "ユウキ",
    yuusuke |-> "ユウスケ",
    yuya |-> "ユウヤ",
    yuzo |-> "ユウゾウ",
    zenichi |-> "ゼンイチ" ]
  @@ ("jun-ei" :> "ジュンエイ")
  @@ ("jun-ichi" :> "ジュンイチ")
  @@ ("ken-ichi" :> "ケンイチ")
  @@ ("ken-ichiro" :> "ケンイチロウ")
  @@ ("ryu-ichiro" :> "リュウイチロウ")
  @@ ("shin-ichiro" :> "シンイチロウ")
  @@ ("sho-ichi" :> "ショウイチ")
  @@ ("shu-ichi" :> "シュウイチ")
  @@ ("taka-aki" :> "タカアキ")
  @@ ("yu-ki" :> "ユウキ")

\* Fault variant: the set holds a name in "to" that has no family override.
LONG_O_SURNAMES_WithKoto ==
  {"saito", "saitoh", "saitou",
   "sato",
   "ando", "kondo", "endo", "shindo",
   "goto", "mitsudo", "kato", "sudo", "koto"}

\* Family names whose final to/do is lengthened (exact match, lower case).
LONG_O_SURNAMES ==
  {"saito", "saitoh", "saitou",
   "sato",
   "ando", "kondo", "endo", "shindo",
   "goto", "mitsudo", "kato", "sudo"}

\* Fault variant: the test of membership in LONG_O_SURNAMES is missing.
apply_surname_long_o_AnyName(ln_lower, ln_kana) ==
  IF EndsWith(ln_lower, "to") /\ EndsWith(ln_kana, "ト") /\ ~EndsWith(ln_kana, "トウ")
  THEN ln_kana \o "ウ"
  ELSE IF EndsWith(ln_lower, "do") /\ EndsWith(ln_kana, "ド") /\ ~EndsWith(ln_kana, "ドウ")
       THEN ln_kana \o "ウ"
       ELSE ln_kana

\* Fault variant: the branch for names in "do" is missing.
apply_surname_long_o_ToOnly(ln_lower, ln_kana) ==
  IF ln_lower \in LONG_O_SURNAMES
  THEN IF EndsWith(ln_lower, "to") /\ EndsWith(ln_kana, "ト") /\ ~EndsWith(ln_kana, "トウ")
       THEN ln_kana \o "ウ"
       ELSE ln_kana
  ELSE ln_kana

\* apply_surname_long_o(ln_lower, ln_kana)
apply_surname_long_o(ln_lower, ln_kana) ==
  IF ln_lower \in LONG_O_SURNAMES
  THEN IF EndsWith(ln_lower, "to") /\ EndsWith(ln_kana, "ト") /\ ~EndsWith(ln_kana, "トウ")
       THEN ln_kana \o "ウ"
       ELSE IF EndsWith(ln_lower, "do") /\ EndsWith(ln_kana, "ド") /\ ~EndsWith(ln_kana, "ドウ")
            THEN ln_kana \o "ウ"
            ELSE ln_kana
  ELSE ln_kana

\* The two rewrites of the given name before conversion (lines 3340-3341):
\* re.sub(r"ryo(?=([bcdfghjklmnpqrstvwxyz]|$))", "ryou", .) and then
\* re.sub(r"ryo(?=i)", "ryoui", .).
RECURSIVE RyoLongFrom(_, _)
RyoLongFrom(t, j) ==
  IF j >= Len(t) THEN ""
  ELSE IF Slice(t, j, j + 3) = "ryo" /\ ConsonantOrEnd(t, j + 3)
       THEN "ryou" \o RyoLongFrom(t, j + 3)
       ELSE Ch(t, j) \o RyoLongFrom(t, j + 1)

\* Fault variant: the second rewrite is missing.
RyoIFrom_Skipped(t, j) == Slice(t, j, Len(t))

RECURSIVE RyoIFrom(_, _)
RyoIFrom(t, j) ==
  IF j >= Len(t) THEN ""
  ELSE IF Slice(t, j, j + 3) = "ryo" /\ Ch(t, j + 3) = "i"
       THEN "ryoui" \o RyoIFrom(t, j + 3)
       ELSE Ch(t, j) \o RyoIFrom(t, j + 1)

RyoRewrite(fn_lower) == RyoIFrom(RyoLongFrom(fn_lower, 0), 0)

\* Fault variant: the names of LONG_O_SURNAMES are left to the converter.
LastNameHit_NotLongO(ln_lower) ==
  /\ ln_lower \in DOMAIN KATAKANA_LASTNAME_OVERRIDE
  /\ ln_lower \notin LONG_O_SURNAMES

\* KATAKANA_LASTNAME_OVERRIDE.get(ln_lower) is truthy
LastNameHit(ln_lower) ==
  ln_lower \in DOMAIN KATAKANA_LASTNAME_OVERRIDE /\ KATAKANA_LASTNAME_OVERRIDE[ln_lower] # ""

\* Fault variant: the dictionary is consulted after the ryo rewrite.
FirstNameHit_AfterRyo(fn_lower) == RyoRewrite(fn_lower) \in DOMAIN KATAKANA_FIRSTNAME_OVERRIDE

\* fn_lower in KATAKANA_FIRSTNAME_OVERRIDE
FirstNameHit(fn_lower) == fn_lower \in DOMAIN KATAKANA_FIRSTNAME_OVERRIDE

\* The guard of the long-o step (line 3333).
LongOApplies(flag, ln_lower) == flag /\ ln_lower \notin DOMAIN KATAKANA_LASTNAME_OVERRIDE

\* Fault variants: given name first; a blank between the parts.
Assemble_GivenFirst(ln_kana, fn_kana) == fn_kana \o ln_kana

Assemble_Blank(ln_kana, fn_kana) == ln_kana \o " " \o fn_kana

\* (ln_kana, fn_kana, ln_kana + fn_kana)
Assemble(ln_kana, fn_kana) == ln_kana \o fn_kana

\* The family and the given katakana of _kana_parts as functions of the
\* arguments (lines 3331-3334 and 3336-3342).
FamilyKana(family, lv, slo) ==
  LET lower == Lower(family)
      kana == IF LastNameHit(lower) THEN KATAKANA_LASTNAME_OVERRIDE[lower]
              ELSE RomanToKatakana(family, lv)
  IN  IF LongOApplies(slo, lower) THEN apply_surname_long_o(lower, kana) ELSE kana

GivenKana(given, lv) ==
  LET lower == Lower(given)
  IN  IF FirstNameHit(lower) THEN KATAKANA_FIRSTNAME_OVERRIDE[lower]
      ELSE RomanToKatakana(RyoRewrite(lower), lv)

\* ------------------------------------------------------------------ inputs
\* Letters of the exhaustively enumerated tokens: the vowels a o u, the
\* consonants h k t (oh, geminates), n (syllabic n) and y (clusters).
RECURSIVE TokensUpTo(_)
TokensUpTo(n) ==
  IF n = 0 THEN {""}
  ELSE LET shorter == TokensUpTo(n - 1)
       IN  shorter \cup {p \o c : p \in shorter, c \in {"a", "o", "u", "h", "k", "n", "t", "y"}}

\* Names with capitals, macrons, circumflexes, digits, punctuation, blanks
\* and katakana, and the names the documentation uses as examples.
ExampleTokens ==
  {"Ito", "SAITO", "Saitoh", "saitou", "Tanaka", "Kenichi", "TARO", "Ken-ichi",
   "katö", "KATÖ", "katô", "katou", "katoo", "öno", "yüki", "satä", "ïda", "këta",
   "âki", "sîn", "kûki", "ênoki", "ôta", "Ôta",
   "kyaku", "kitta", "hatto", "ohno", "ohashi", "ohta", "kohei", "nyaa", "kanya",
   "ouuu", "kouu", "Ko", "ohaoh", "koto", "kodo", "kudo", "mato", "bando",
   "ito1", "i-to", "ryo-ta", "a b", "1234", "-", " ", "タナカ", "kaタ", "Ì", "Ì.",
   "ryok", "ryoi", "ryoa", "ryoe", "ryon", "aryo", "ryoryo", "ryoiti",
   "xa", "yi", "fu", "ja", "jan", "chi", "tsu", "she", "lala", "wi", "sh", "q"}

\* One part of the name ranges over all its inputs while the other is
\* empty or a plain name.
NamePairs ==
  LET tokens == TokensUpTo(MaxLen) \cup ExampleTokens
      family == tokens \cup DOMAIN KATAKANA_LASTNAME_OVERRIDE \cup LONG_O_SURNAMES
      given == tokens \cup DOMAIN KATAKANA_FIRSTNAME_OVERRIDE
  IN  (family \X {"", "taro"}) \cup ({"", "tanaka"} \X given)

\* Arguments of a direct call of apply_surname_long_o: a family name of the
\* set, or one like them, with its rule-converted katakana or its override
\* value, and any short token with katakana that ends in "ト", in "ド" or
\* in neither.
LongONames ==
  LONG_O_SURNAMES \cup
  {"koto", "kodo", "mato", "kudo", "bando", "ito", "saitoo", "satou", "andou"}

LongOArgs ==
  {<<n, RomanToKatakana(n, lv)>> : n \in LongONames, lv \in BOOLEAN} \cup
  {<<n, KATAKANA_LASTNAME_OVERRIDE[n]>> : n \in LongONames \cap DOMAIN KATAKANA_LASTNAME_OVERRIDE}
  \cup (TokensUpTo(MaxLen) \X {"ト", "コド", "カ"})

\* ------------------------------------------------------------------- state
\* Every string but s (lower-case ASCII letters) is held as its code points.
VARIABLES
  op,              \* the function being run: "kana_parts", "fullname", "long_o"
  ln, fn,          \* its arguments: family (last) and given (first) name
  long_vowel,
  surname_long_o,
  pc,              \* position in the running function
  ln_lower, ln_kana, fn_lower, fn_proc, fn_kana,   \* locals of _kana_parts
  kana_name,       \* the assembled full name
  returned,        \* the value returned by a direct call of apply_surname_long_o
  ret,             \* roman_to_katakana: the call site to return to
  tok,             \* roman_to_katakana: the argument s as passed
  s, i, out,       \* roman_to_katakana: locals
  iters,           \* iterations of the while loop in the current call
  converted        \* call sites from which roman_to_katakana was entered

\* fetch_eupmc_all
VARIABLES
  f_pc,            \* position in fetch_eupmc_all
  max_rows,        \* its argument
  results, cursor, page_size, fetched, total_hit_count,   \* its locals
  fetch_ret,       \* the pair it returned
  served,          \* items the API has handed out during the call
  n_requests       \* calls of requests.get during the call

fetch_vars ==
  <<f_pc, max_rows, results, cursor, page_size, fetched, total_hit_count, fetch_ret,
    served, n_requests>>

kana_vars ==
  <<op, ln, fn, long_vowel, surname_long_o, pc, ln_lower, ln_kana, fn_lower, fn_proc,
    fn_kana, kana_name, returned, ret, tok, s, i, out, iters, converted>>

\* The script: one run from top to bottom per interaction of the user.
VARIABLES
  secrets,         \* st.secrets, fixed when the app is deployed
  signed_in, signin_attempts, user,    \* st.session_state, kept between runs
  typed,           \* the sign-in form of the latest run: user id, password, submitted
  a_pc,            \* position of the running script ("idle": no run)
  run,             \* the module-level variable run
  signin_ret,      \* what check_signin() returned in this run
  has_terms,       \* disease, keywords or dept was filled in
  relax_if_zero,   \* the checkbox of that name
  ui_max_rows,     \* the number input "Max records to fetch"
  items,           \* the items the search block holds
  fetch_calls,     \* calls of fetch_eupmc_all in this run
  hit_requests     \* calls of requests.get by get_hit_count in this run

session_vars == <<signed_in, signin_attempts, user, typed>>
script_vars ==
  <<secrets, session_vars, a_pc, run, signin_ret, has_terms, relax_if_zero, ui_max_rows,
    items, fetch_calls, hit_requests>>

\* explode_authors and aggregate_author_scores
VARIABLES
  sc_pc,           \* position in the scoring of a result list
  sc_items,        \* the items handed to explode_authors
  df,              \* the rows explode_authors returned
  agg              \* the table aggregate_author_scores sorted

score_vars == <<sc_pc, sc_items, df, agg>>

app_vars == <<fetch_vars, script_vars, score_vars>>

vars == <<kana_vars, app_vars>>

args == <<op, ln, fn, long_vowel, surname_long_o>>
kp_locals == <<ln_lower, ln_kana, fn_lower, fn_proc, fn_kana, kana_name, returned>>
r2k_locals == <<s, i, out, iters>>

\* No call of fetch_eupmc_all is running.
FetchIdle ==
  /\ f_pc = "idle" /\ max_rows = 0
  /\ results = <<>> /\ cursor = 0 /\ page_size = 0 /\ fetched = 0 /\ total_hit_count = 0
  /\ fetch_ret = <<>> /\ served = 0 /\ n_requests = 0

\* No individual password.
NoUsers == [u \in {} |-> ""]

\* Secrets with an [auth] section: allow_users is a list (kind "list"), a
\* string (kind "str"), missing ("unset") or of another type ("other");
\* common is [auth].common_password, "none" standing for None; table is the
\* table [auth.users] of the docstring, st.secrets["auth"]["users"], and
\* dotted the value of a top-level key spelled "auth.users", the one that
\* st.secrets.get("auth.users", {}) reads.
AuthSecrets(kind, list, str, common, table, dotted) ==
  [has_auth |-> TRUE, app_password |-> "none", allow_kind |-> kind,
   allow_list |-> list, allow_str |-> str, common_password |-> common,
   auth_users |-> table, dotted_users |-> dotted]

\* Secrets without [auth]: pw is [passwords].app_password, "none" if absent.
LegacySecrets(pw) ==
  [has_auth |-> FALSE, app_password |-> pw, allow_kind |-> "unset",
   allow_list |-> <<>>, allow_str |-> "", common_password |-> "none",
   auth_users |-> NoUsers, dotted_users |-> NoUsers]

\* A deployment with an allow-list and a common password.
DefaultSecrets == AuthSecrets("list", <<"alice">>, "", "pw1", NoUsers, NoUsers)

\* A fresh browser session, no run of the script yet: ss.setdefault gives
\* signed_in False and signin_attempts 0, and run = False.
ScriptFresh ==
  /\ signed_in = FALSE /\ signin_attempts = 0 /\ user = "none"
  /\ typed = <<"", "", FALSE>>
  /\ a_pc = "idle" /\ run = FALSE /\ signin_ret = "none"
  /\ has_terms = FALSE /\ relax_if_zero = FALSE /\ ui_max_rows = 0 /\ items = <<>>
  /\ fetch_calls = 0 /\ hit_requests = 0

\* Nothing runs: no call of fetch_eupmc_all, no run of the script, no
\* scoring, and the deployment is the default one.
AppIdle ==
  /\ FetchIdle /\ secrets = DefaultSecrets /\ ScriptFresh
  /\ sc_pc = "idle" /\ sc_items = <<>> /\ df = <<>> /\ agg = <<>>

KanaIdle ==
  /\ op = "none" /\ ln = <<>> /\ fn = <<>> /\ long_vowel = TRUE /\ surname_long_o = FALSE
  /\ pc = "idle"
  /\ ln_lower = Unbound /\ ln_kana = Unbound /\ fn_lower = Unbound
  /\ fn_proc = Unbound /\ fn_kana = Unbound /\ kana_name = Unbound
  /\ returned = Unbound
  /\ ret = "none" /\ tok = Unbound
  /\ s = "" /\ i = 0 /\ out = <<>> /\ iters = 0
  /\ converted = {}

Init == AppIdle /\ KanaIdle

\* ------------------------------------------------------------- entry points
\* aggregate_author_scores applies _kana_parts to an author whose names are
\* ln and fn, with the two options of the call.
CallKanaParts ==
  /\ UNCHANGED app_vars
  /\ pc = "idle"
  /\ \E p \in NamePairs, lv \in BOOLEAN, slo \in BOOLEAN :
       /\ ln' = Codes(p[1]) /\ fn' = Codes(p[2]) /\ long_vowel' = lv /\ surname_long_o' = slo
  /\ op' = "kana_parts"
  /\ pc' = "kp_ln"
  /\ UNCHANGED <<kp_locals, ret, tok, r2k_locals, converted>>

\* to_katakana_fullname(first, last, long_vowel)
CallFullname ==
  /\ UNCHANGED app_vars
  /\ pc = "idle"
  /\ \E p \in NamePairs, lv \in BOOLEAN :
       /\ ln' = Codes(p[1]) /\ fn' = Codes(p[2]) /\ long_vowel' = lv
  /\ surname_long_o' = FALSE
  /\ op' = "fullname"
  /\ pc' = "fullname_last"
  /\ UNCHANGED <<kp_locals, ret, tok, r2k_locals, converted>>

\* apply_surname_long_o(ln_lower, ln_kana), called on its own: the two
\* parameters are bound by the call.
CallLongO ==
  /\ UNCHANGED app_vars
  /\ pc = "idle"
  /\ \E a \in LongOArgs : ln_lower' = Codes(a[1]) /\ ln_kana' = Codes(a[2])
  /\ op' = "long_o"
  /\ pc' = "long_o"
  /\ UNCHANGED <<ln, fn, long_vowel, surname_long_o, fn_lower, fn_proc, fn_kana, kana_name,
                 returned, ret, tok, r2k_locals, converted>>

LongOReturn ==
  /\ UNCHANGED app_vars
  /\ pc = "long_o"
  /\ returned' = Codes(apply_surname_long_o(Str(ln_lower), Str(ln_kana)))
  /\ pc' = "done"
  /\ UNCHANGED <<args, ln_lower, ln_kana, fn_lower, fn_proc, fn_kana, kana_name, ret, tok,
                 r2k_locals, converted>>

\* ------------------------------------------------------- roman_to_katakana
\* Fault variant: the argument of an earlier call in the same run is reused.
Enter_Stale(site, t) ==
  /\ UNCHANGED app_vars
  /\ ret' = site
  /\ tok' = IF tok = Unbound THEN Codes(t) ELSE tok
  /\ pc' = "r2k"
  /\ converted' = converted \cup {site}
  /\ UNCHANGED r2k_locals

\* The call roman_to_katakana(t, long_vowel) from call site site.
Enter(site, t) ==
  /\ UNCHANGED app_vars
  /\ ret' = site
  /\ tok' = Codes(t)
  /\ pc' = "r2k"
  /\ converted' = converted \cup {site}
  /\ UNCHANGED r2k_locals

\* The return of value kat to the call site.
Return(kat) ==
  /\ UNCHANGED app_vars
  /\ ln_kana' = IF ret \in {"kp_ln", "fullname_last"} THEN Codes(kat) ELSE ln_kana
  /\ fn_kana' = IF ret \in {"kp_fn", "fullname_first"} THEN Codes(kat) ELSE fn_kana
  /\ pc' = IF ret = "kp_ln" THEN "kp_long_o"
           ELSE IF ret = "kp_fn" THEN "kp_return"
           ELSE IF ret = "fullname_last" THEN "fullname_first"
           ELSE "fullname_concat"
  /\ UNCHANGED <<args, ln_lower, fn_lower, fn_proc, kana_name, returned, ret, tok, converted>>

\* if not s: return ""
R2KEmpty ==
  /\ pc = "r2k"
  /\ tok = <<>>
  /\ Return("")
  /\ UNCHANGED r2k_locals

\* s = s.lower().translate(MACRON); s = re.sub(r"[^a-z]", "", s)
R2KClean ==
  /\ UNCHANGED app_vars
  /\ pc = "r2k"
  /\ tok # <<>>
  /\ s' = Clean(Str(tok))
  /\ pc' = "r2k_oh"
  /\ UNCHANGED <<args, kp_locals, ret, tok, i, out, iters, converted>>

\* s = re.sub(r"oh(?=...)", "ou", s); out = []; i = 0
R2KOhRewrite ==
  /\ UNCHANGED app_vars
  /\ pc = "r2k_oh"
  /\ s' = OhRewrite(s)
  /\ out' = <<>>
  /\ i' = 0
  /\ iters' = 0
  /\ pc' = "r2k_loop"
  /\ UNCHANGED <<args, kp_locals, ret, tok, converted>>

\* One iteration of the while loop, taking step rule.
Step(rule) ==
  /\ UNCHANGED app_vars
  /\ pc = "r2k_loop"
  /\ i < Len(s)
  /\ Rule(s, i) = rule
  /\ out' = IF Emits(rule) THEN Append(out, Codes(Unit(s, i))) ELSE out
  /\ i' = i + Advance(s, i)
  /\ iters' = iters + 1
  /\ UNCHANGED <<args, pc, kp_locals, ret, tok, s, converted>>

StepGeminate == Step("geminate")
StepTri == Step("tri")
StepDi3 == Step("di3")
StepDi2 == Step("di2")
StepNVowel == Step("n_vowel")
StepNY == Step("n_y")
StepNAlone == Step("n_alone")
StepConsVowel == Step("cons_vowel")
StepVowel == Step("vowel")
StepDrop == Step("drop")

\* Loop exit: kat = "".join(out), the long-vowel fix-up, return kat.
R2KExit ==
  /\ pc = "r2k_loop"
  /\ i >= Len(s)
  /\ Return(Finish([k \in 1..Len(out) |-> Str(out[k])], long_vowel))
  /\ UNCHANGED r2k_locals

\* -------------------------------------------------------------- _kana_parts
\* ln_kana = KATAKANA_LASTNAME_OVERRIDE.get(ln_lower) or roman_to_katakana(..)
KpLnOverride ==
  /\ UNCHANGED app_vars
  /\ pc = "kp_ln"
  /\ LastNameHit(Lower(Str(ln)))
  /\ ln_lower' = Codes(Lower(Str(ln)))
  /\ ln_kana' = Codes(KATAKANA_LASTNAME_OVERRIDE[Lower(Str(ln))])
  /\ pc' = "kp_long_o"
  /\ UNCHANGED <<args, fn_lower, fn_proc, fn_kana, kana_name, returned, ret, tok, r2k_locals,
                 converted>>

KpLnConvert ==
  /\ pc = "kp_ln"
  /\ ~LastNameHit(Lower(Str(ln)))
  /\ ln_lower' = Codes(Lower(Str(ln)))
  /\ Enter("kp_ln", Str(ln))
  /\ UNCHANGED <<args, ln_kana, fn_lower, fn_proc, fn_kana, kana_name, returned>>

\* if surname_long_o and ln_lower not in KATAKANA_LASTNAME_OVERRIDE: ...
KpLongO ==
  /\ UNCHANGED app_vars
  /\ pc = "kp_long_o"
  /\ ln_kana' = IF LongOApplies(surname_long_o, Str(ln_lower))
                THEN Codes(apply_surname_long_o(Str(ln_lower), Str(ln_kana)))
                ELSE ln_kana
  /\ pc' = "kp_fn"
  /\ UNCHANGED <<args, ln_lower, fn_lower, fn_proc, fn_kana, kana_name, returned, ret, tok,
                 r2k_locals, converted>>

KpFnOverride ==
  /\ UNCHANGED app_vars
  /\ pc = "kp_fn"
  /\ FirstNameHit(Lower(Str(fn)))
  /\ fn_lower' = Codes(Lower(Str(fn)))
  /\ fn_kana' = Codes(KATAKANA_FIRSTNAME_OVERRIDE[Lower(Str(fn))])
  /\ pc' = "kp_return"
  /\ UNCHANGED <<args, ln_lower, ln_kana, fn_proc, kana_name, returned, ret, tok, r2k_locals,
                 converted>>

KpFnConvert ==
  /\ pc = "kp_fn"
  /\ ~FirstNameHit(Lower(Str(fn)))
  /\ fn_lower' = Codes(Lower(Str(fn)))
  /\ fn_proc' = Codes(RyoRewrite(Lower(Str(fn))))
  /\ Enter("kp_fn", RyoRewrite(Lower(Str(fn))))
  /\ UNCHANGED <<args, ln_lower, ln_kana, fn_kana, kana_name, returned>>

\* return ln_kana, fn_kana, (ln_kana + fn_kana)
KpReturn ==
  /\ UNCHANGED app_vars
  /\ pc = "kp_return"
  /\ kana_name' = Codes(Assemble(Str(ln_kana), Str(fn_kana)))
  /\ pc' = "done"
  /\ UNCHANGED <<args, ln_lower, ln_kana, fn_lower, fn_proc, fn_kana, returned, ret, tok,
                 r2k_locals, converted>>

\* ----------------------------------------------------- to_katakana_fullname
\* roman_to_katakana(last, long_vowel) + roman_to_katakana(first, long_vowel):
\* the left operand is evaluated first; ln_kana and fn_kana hold the operands.
FullnameLast ==
  /\ pc = "fullname_last"
  /\ Enter("fullname_last", Str(ln))
  /\ UNCHANGED <<args, kp_locals>>

FullnameFirst ==
  /\ pc = "fullname_first"
  /\ Enter("fullname_first", Str(fn))
  /\ UNCHANGED <<args, kp_locals>>

FullnameConcat ==
  /\ UNCHANGED app_vars
  /\ pc = "fullname_concat"
  /\ kana_name' = Codes(Assemble(Str(ln_kana), Str(fn_kana)))
  /\ pc' = "done"
  /\ UNCHANGED <<args, ln_lower, ln_kana, fn_lower, fn_proc, fn_kana, returned, ret, tok,
                 r2k_locals, converted>>

\* The call is over: its locals are gone and the next call can start.
Finished ==
  /\ UNCHANGED app_vars
  /\ pc = "done"
  /\ op' = "none" /\ ln' = <<>> /\ fn' = <<>> /\ long_vowel' = TRUE /\ surname_long_o' = FALSE
  /\ pc' = "idle"
  /\ ln_lower' = Unbound /\ ln_kana' = Unbound /\ fn_lower' = Unbound
  /\ fn_proc' = Unbound /\ fn_kana' = Unbound /\ kana_name' = Unbound
  /\ returned' = Unbound
  /\ ret' = "none" /\ tok' = Unbound
  /\ s' = "" /\ i' = 0 /\ out' = <<>> /\ iters' = 0
  /\ converted' = {}

Next ==
  \/ CallKanaParts
  \/ CallFullname
  \/ CallLongO
  \/ LongOReturn
  \/ R2KEmpty
  \/ R2KClean
  \/ R2KOhRewrite
  \/ StepGeminate
  \/ StepTri
  \/ StepDi3
  \/ StepDi2
  \/ StepNVowel
  \/ StepNY
  \/ StepNAlone
  \/ StepConsVowel
  \/ StepVowel
  \/ StepDrop
  \/ R2KExit
  \/ KpLnOverride
  \/ KpLnConvert
  \/ KpLongO
  \/ KpFnOverride
  \/ KpFnConvert
  \/ KpReturn
  \/ FullnameLast
  \/ FullnameFirst
  \/ FullnameConcat
  \/ Finished

Spec == Init /\ [][Next]_vars


\* ------------------------------------------------ several calls in flight
\* The same functions with several calls running at once, their steps
\* interleaved in any order. Under ConcSpec each argument and each local
\* holds one value per call (a Python local lives in the frame of its
\* call); the tables are the definitions above, which no step assigns.
\* Each call resolves one family name as lines 3331-3334 do.
Workers == {1, 2}

\* Fault variant: out is one list shared by all calls.
OutCell_Shared(w) == 1

\* out = [] (line 3203) binds a fresh list in the frame of call w.
OutCell(w) == w

conc_unused ==
  <<op, fn, fn_lower, fn_proc, fn_kana, kana_name, returned, ret, iters, converted, app_vars>>

ConcInit ==
  /\ AppIdle
  /\ op = "concurrent" /\ fn = <<>>
  /\ fn_lower = Unbound /\ fn_proc = Unbound /\ fn_kana = Unbound /\ kana_name = Unbound
  /\ returned = Unbound /\ ret = "none" /\ iters = 0 /\ converted = {}
  /\ ln = [w \in Workers |-> <<>>]
  /\ long_vowel = [w \in Workers |-> TRUE]
  /\ surname_long_o = [w \in Workers |-> FALSE]
  /\ pc = [w \in Workers |-> "idle"]
  /\ ln_lower = [w \in Workers |-> Unbound]
  /\ ln_kana = [w \in Workers |-> Unbound]
  /\ tok = [w \in Workers |-> Unbound]
  /\ s = [w \in Workers |-> ""]
  /\ i = [w \in Workers |-> 0]
  /\ out = [w \in Workers |-> <<>>]

ConcCall(w) ==
  /\ pc[w] = "idle"
  /\ \E t \in {"", "kitta", "ohno", "nan", "saitou", "koto", "ouu", "Ito"},
        lv \in BOOLEAN, slo \in BOOLEAN :
       /\ ln' = [ln EXCEPT ![w] = Codes(t)]
       /\ long_vowel' = [long_vowel EXCEPT ![w] = lv]
       /\ surname_long_o' = [surname_long_o EXCEPT ![w] = slo]
  /\ pc' = [pc EXCEPT ![w] = "kp_ln"]
  /\ UNCHANGED <<conc_unused, ln_lower, ln_kana, tok, s, i, out>>

ConcLnOverride(w) ==
  /\ pc[w] = "kp_ln"
  /\ LastNameHit(Lower(Str(ln[w])))
  /\ ln_lower' = [ln_lower EXCEPT ![w] = Codes(Lower(Str(ln[w])))]
  /\ ln_kana' = [ln_kana EXCEPT ![w] = Codes(KATAKANA_LASTNAME_OVERRIDE[Lower(Str(ln[w]))])]
  /\ pc' = [pc EXCEPT ![w] = "kp_long_o"]
  /\ UNCHANGED <<conc_unused, ln, long_vowel, surname_long_o, tok, s, i, out>>

ConcLnConvert(w) ==
  /\ pc[w] = "kp_ln"
  /\ ~LastNameHit(Lower(Str(ln[w])))
  /\ ln_lower' = [ln_lower EXCEPT ![w] = Codes(Lower(Str(ln[w])))]
  /\ tok' = [tok EXCEPT ![w] = ln[w]]
  /\ pc' = [pc EXCEPT ![w] = "r2k"]
  /\ UNCHANGED <<conc_unused, ln, long_vowel, surname_long_o, ln_kana, s, i, out>>

ConcR2KEmpty(w) ==
  /\ pc[w] = "r2k"
  /\ tok[w] = <<>>
  /\ ln_kana' = [ln_kana EXCEPT ![w] = <<>>]
  /\ pc' = [pc EXCEPT ![w] = "kp_long_o"]
  /\ UNCHANGED <<conc_unused, ln, long_vowel, surname_long_o, ln_lower, tok, s, i, out>>

ConcR2KClean(w) ==
  /\ pc[w] = "r2k"
  /\ tok[w] # <<>>
  /\ s' = [s EXCEPT ![w] = Clean(Str(tok[w]))]
  /\ pc' = [pc EXCEPT ![w] = "r2k_oh"]
  /\ UNCHANGED <<conc_unused, ln, long_vowel, surname_long_o, ln_lower, ln_kana, tok, i, out>>

ConcR2KOhRewrite(w) ==
  /\ pc[w] = "r2k_oh"
  /\ s' = [s EXCEPT ![w] = OhRewrite(s[w])]
  /\ out' = [out EXCEPT ![OutCell(w)] = <<>>]
  /\ i' = [i EXCEPT ![w] = 0]
  /\ pc' = [pc EXCEPT ![w] = "r2k_loop"]
  /\ UNCHANGED <<conc_unused, ln, long_vowel, surname_long_o, ln_lower, ln_kana, tok>>

ConcStep(w) ==
  /\ pc[w] = "r2k_loop"
  /\ i[w] < Len(s[w])
  /\ out' = [out EXCEPT ![OutCell(w)] =
               IF Emits(Rule(s[w], i[w])) THEN Append(@, Codes(Unit(s[w], i[w]))) ELSE @]
  /\ i' = [i EXCEPT ![w] = @ + Advance(s[w], i[w])]
  /\ UNCHANGED <<conc_unused, ln, long_vowel, surname_long_o, pc, ln_lower, ln_kana, tok, s>>

ConcR2KExit(w) ==
  /\ pc[w] = "r2k_loop"
  /\ i[w] >= Len(s[w])
  /\ ln_kana' = [ln_kana EXCEPT ![w] =
                   Codes(Finish([k \in 1..Len(out[OutCell(w)]) |-> Str(out[OutCell(w)][k])],
                                long_vowel[w]))]
  /\ pc' = [pc EXCEPT ![w] = "kp_long_o"]
  /\ UNCHANGED <<conc_unused, ln, long_vowel, surname_long_o, ln_lower, tok, s, i, out>>

ConcLongO(w) ==
  /\ pc[w] = "kp_long_o"
  /\ ln_kana' = [ln_kana EXCEPT ![w] =
                   IF LongOApplies(surname_long_o[w], Str(ln_lower[w]))
                   THEN Codes(apply_surname_long_o(Str(ln_lower[w]), Str(ln_kana[w])))
                   ELSE @]
  /\ pc' = [pc EXCEPT ![w] = "done"]
  /\ UNCHANGED <<conc_unused, ln, long_vowel, surname_long_o, ln_lower, tok, s, i, out>>

\* The call of w is over: its frame is gone.
ConcFinished(w) ==
  /\ pc[w] = "done"
  /\ pc' = [pc EXCEPT ![w] = "idle"]
  /\ ln' = [ln EXCEPT ![w] = <<>>]
  /\ long_vowel' = [long_vowel EXCEPT ![w] = TRUE]
  /\ surname_long_o' = [surname_long_o EXCEPT ![w] = FALSE]
  /\ ln_lower' = [ln_lower EXCEPT ![w] = Unbound]
  /\ ln_kana' = [ln_kana EXCEPT ![w] = Unbound]
  /\ tok' = [tok EXCEPT ![w] = Unbound]
  /\ s' = [s EXCEPT ![w] = ""]
  /\ i' = [i EXCEPT ![w] = 0]
  /\ out' = [out EXCEPT ![OutCell(w)] = <<>>]
  /\ UNCHANGED conc_unused

ConcNext ==
  \/ \E w \in Workers : ConcCall(w)
  \/ \E w \in Workers : ConcLnOverride(w)
  \/ \E w \in Workers : ConcLnConvert(w)
  \/ \E w \in Workers : ConcR2KEmpty(w)
  \/ \E w \in Workers : ConcR2KClean(w)
  \/ \E w \in Workers : ConcR2KOhRewrite(w)
  \/ \E w \in Workers : ConcStep(w)
  \/ \E w \in Workers : ConcR2KExit(w)
  \/ \E w \in Workers : ConcLongO(w)
  \/ \E w \in Workers : ConcFinished(w)

ConcSpec == ConcInit /\ [][ConcNext]_vars

\* --------------------------------------------------------- fetch_eupmc_all
\* page_size = 1000 if max_rows >= 1000 else max_rows
PageCap == 1000

\* Largest of the small values of max_rows; the calls also use PageCap,
\* PageCap + 1 and 2 * PageCap + 1, where one page does not fill the request.
MaxRowsSmall == 3

PageSize(mr) == IF mr >= PageCap THEN PageCap ELSE mr

\* The API answers a request with any number of items, fewer than asked,
\* as many, or more: the lengths tried for a request of ps items.
PageLengths(ps) == {n \in {0, 1, ps - 1, ps, ps + 1} : n >= 0}

\* int(j.get("hitCount", 0)) of a response
HitCounts == {0, 5}

\* Fault variant: the final slice is missing.
Truncate_None(res, mr) == res

\* results[:max_rows], for max_rows >= 0
Truncate(res, mr) == SubSeq(res, 1, Min(mr, Len(res)))

\* The function is entered with max_rows = mr: its locals before the loop.
FetchEnter(mr) ==
  /\ f_pc = "idle"
  /\ max_rows' = mr
  /\ page_size' = PageSize(mr)
  /\ results' = <<>> /\ cursor' = 0 /\ fetched' = 0 /\ total_hit_count' = 0
  /\ fetch_ret' = <<>> /\ served' = 0 /\ n_requests' = 0
  /\ f_pc' = "while"

\* The caller has taken the result, or the exception: the frame is gone.
FetchLeave ==
  /\ f_pc \in {"done", "raised"}
  /\ f_pc' = "idle" /\ max_rows' = 0
  /\ results' = <<>> /\ cursor' = 0 /\ page_size' = 0 /\ fetched' = 0
  /\ total_hit_count' = 0
  /\ fetch_ret' = <<>> /\ served' = 0 /\ n_requests' = 0

\* A call of the function on its own, outside a run of the script.
FetchCall ==
  /\ a_pc = "idle"
  /\ \E mr \in (0..MaxRowsSmall) \cup {PageCap, PageCap + 1, 2 * PageCap + 1} :
       FetchEnter(mr)
  /\ UNCHANGED <<kana_vars, score_vars, script_vars>>

\* requests.get, raise_for_status or the decoding of the response raises.
FetchRaise ==
  /\ f_pc = "while"
  /\ fetched < max_rows
  /\ n_requests' = n_requests + 1
  /\ f_pc' = "raised"
  /\ UNCHANGED <<kana_vars, score_vars, script_vars, max_rows, results, cursor, page_size, fetched, total_hit_count,
                 fetch_ret, served>>

\* A response whose result list is empty: break.
FetchEmptyPage ==
  /\ f_pc = "while"
  /\ fetched < max_rows
  /\ n_requests' = n_requests + 1
  /\ \E hit \in HitCounts :
       total_hit_count' = IF total_hit_count = 0 THEN hit ELSE total_hit_count
  /\ f_pc' = "return"
  /\ UNCHANGED <<kana_vars, score_vars, script_vars, max_rows, results, cursor, page_size, fetched, fetch_ret, served>>

\* Fault variant: a short page does not end the loop.
LastPage_NoShortTest(n, next, ps) == ~next

\* if not j.get("nextCursorMark") or len(items) < page_size: break
LastPage(n, next, ps) == ~next \/ n < ps

\* A response with items, the body of the loop up to its last test.
FetchPage(n, next, hit, last) ==
  /\ f_pc = "while"
  /\ fetched < max_rows
  /\ n > 0
  /\ last = LastPage(n, next, page_size)
  /\ n_requests' = n_requests + 1
  /\ total_hit_count' = IF total_hit_count = 0 THEN hit ELSE total_hit_count
  /\ results' = results \o [k \in 1..n |-> served + k]   \* items served + 1 and on
  /\ served' = served + n
  /\ fetched' = fetched + n
  /\ cursor' = IF next THEN n_requests + 1 ELSE cursor
  /\ f_pc' = IF last THEN "return" ELSE "while"
  /\ UNCHANGED <<kana_vars, score_vars, script_vars, max_rows, page_size, fetch_ret>>

\* no nextCursorMark, or fewer items than page_size: break
FetchLastPage ==
  \E n \in PageLengths(page_size), next \in BOOLEAN, hit \in HitCounts :
    FetchPage(n, next, hit, TRUE)

\* time.sleep(0.2) and the next test of the loop
FetchNextPage ==
  \E n \in PageLengths(page_size), next \in BOOLEAN, hit \in HitCounts :
    FetchPage(n, next, hit, FALSE)

\* while fetched < max_rows fails
FetchLoopExit ==
  /\ f_pc = "while"
  /\ fetched >= max_rows
  /\ f_pc' = "return"
  /\ UNCHANGED <<kana_vars, score_vars, script_vars, max_rows, results, cursor, page_size, fetched, total_hit_count,
                 fetch_ret, served, n_requests>>

\* return results[:max_rows], total_hit_count
FetchReturn ==
  /\ f_pc = "return"
  /\ fetch_ret' = <<Truncate(results, max_rows), total_hit_count>>
  /\ f_pc' = "done"
  /\ UNCHANGED <<kana_vars, score_vars, script_vars, max_rows, results, cursor, page_size, fetched, total_hit_count,
                 served, n_requests>>

\* The call is over, by return or by exception.
FetchFinished ==
  /\ a_pc = "idle"
  /\ FetchLeave
  /\ UNCHANGED <<kana_vars, score_vars, script_vars>>

FetchNext ==
  \/ FetchCall
  \/ FetchRaise
  \/ FetchEmptyPage
  \/ FetchLastPage
  \/ FetchNextPage
  \/ FetchLoopExit
  \/ FetchReturn
  \/ FetchFinished

FetchSpec == Init /\ [][FetchNext]_vars


\* ------------------------------------------------------- the script's runs
\* ss.signin_attempts grows without limit in the code; the runs explored
\* stop counting at MaxAttempts, past the threshold of five.
MaxAttempts == 6

\* if ss.signin_attempts >= 5
AttemptLimit == 5

\* str.strip() on the blank
RECURSIVE LStrip(_)
LStrip(x) ==
  IF x # "" /\ Ch(x, 0) = " " THEN LStrip(Slice(x, 1, Len(x))) ELSE x

RECURSIVE RStrip(_)
RStrip(x) ==
  IF x # "" /\ Ch(x, Len(x) - 1) = " " THEN RStrip(Slice(x, 0, Len(x) - 1)) ELSE x

Strip(x) == LStrip(RStrip(x))

\* re.split on the comma: the pieces of x, cur being the piece under way
RECURSIVE SplitPieces(_, _)
SplitPieces(x, cur) ==
  IF x = "" THEN {cur}
  ELSE IF Ch(x, 0) = "," THEN {cur} \cup SplitPieces(Slice(x, 1, Len(x)), "")
  ELSE SplitPieces(Slice(x, 1, Len(x)), cur \o Ch(x, 0))

\* allow_users as check_signin builds it
AllowUsers(sec) ==
  CASE sec.allow_kind = "list" ->
         {Lower(Strip(sec.allow_list[k])) : k \in DOMAIN sec.allow_list} \ {""}
    [] sec.allow_kind = "str" ->     \* _split_any(s), as a set, lower-cased
         {Lower(q) : q \in {Strip(p) : p \in SplitPieces(sec.allow_str, "")} \ {""}}
    [] OTHER -> {}

\* ok, for a user of the allow-list; user_pw_map is what
\* st.secrets.get("auth.users", {}) gives.
PasswordOk(sec, user_id, password) ==
  IF user_id \in DOMAIN sec.dotted_users THEN password = sec.dotted_users[user_id]
  ELSE IF sec.common_password # "none" THEN password = sec.common_password
  ELSE FALSE

\* The deployments explored.
SecretsChoices ==
  { DefaultSecrets,
    AuthSecrets("list", <<"Alice ", "">>, "", "none", ("alice" :> "pw2"), NoUsers),
    AuthSecrets("str", <<>>, "alice, Eve", "pw1", ("alice" :> "pw2"), NoUsers),
    AuthSecrets("list", <<"alice">>, "", "pw1", NoUsers, ("alice" :> "pw2")),
    AuthSecrets("list", <<"alice">>, "", "none", NoUsers, NoUsers),
    AuthSecrets("unset", <<>>, "", "pw1", NoUsers, NoUsers),
    AuthSecrets("other", <<>>, "", "pw1", NoUsers, NoUsers),
    LegacySecrets("pw1"),
    LegacySecrets("none") }

\* The passwords a visitor types into the form.
PasswordInputs == {"pw1", "pw2", ""}

\* The script starts from its top: run = False.
ScriptStart ==
  /\ a_pc = "idle" /\ f_pc = "idle"
  /\ a_pc' = "check_signin"
  /\ run' = FALSE
  /\ signin_ret' = "none"
  /\ has_terms' = FALSE /\ relax_if_zero' = FALSE /\ ui_max_rows' = 0 /\ items' = <<>>
  /\ fetch_calls' = 0 /\ hit_requests' = 0
  /\ UNCHANGED <<kana_vars, score_vars, fetch_vars, secrets, session_vars>>

\* st.stop() or st.rerun(): the run ends here.
RunEnds ==
  /\ a_pc' = "idle"
  /\ UNCHANGED <<run, signin_ret, has_terms, relax_if_zero, ui_max_rows, items,
                 fetch_calls, hit_requests>>

\* check_signin or legacy_password_gate returns v.
SigninReturns(v) ==
  /\ a_pc' = "after_signin"
  /\ signin_ret' = v
  /\ UNCHANGED <<run, has_terms, relax_if_zero, ui_max_rows, items, fetch_calls,
                 hit_requests>>

\* Fault variant: a wrong password is not counted.
WrongPassword_NotCounted ==
  /\ signin_attempts < MaxAttempts
  /\ SigninReturns("False")
  /\ UNCHANGED <<signed_in, signin_attempts, user>>

\* A wrong password: one more attempt, st.stop() from the fifth on.
WrongPassword ==
  /\ signin_attempts < MaxAttempts
  /\ signin_attempts' = signin_attempts + 1
  /\ IF signin_attempts + 1 >= AttemptLimit THEN RunEnds ELSE SigninReturns("False")
  /\ UNCHANGED <<signed_in, user>>

\* No [auth] and no [passwords].app_password: st.error, st.stop().
SigninNoAuthStop ==
  /\ a_pc = "check_signin"
  /\ ~secrets.has_auth /\ secrets.app_password = "none"
  /\ RunEnds
  /\ UNCHANGED <<kana_vars, score_vars, fetch_vars, secrets, session_vars>>

\* allow_users is missing, or neither a list nor a string: st.stop().
SigninAllowUnset ==
  /\ a_pc = "check_signin"
  /\ secrets.has_auth /\ secrets.allow_kind \in {"unset", "other"}
  /\ RunEnds
  /\ UNCHANGED <<kana_vars, score_vars, fetch_vars, secrets, session_vars>>

\* ss.signed_in: return True
SigninSignedIn ==
  /\ a_pc = "check_signin"
  /\ secrets.has_auth /\ secrets.allow_kind \in {"list", "str"}
  /\ signed_in
  /\ SigninReturns("True")
  /\ UNCHANGED <<kana_vars, score_vars, fetch_vars, secrets, session_vars>>

\* The form is shown and was not submitted: return False
SigninNoSubmit ==
  /\ a_pc = "check_signin"
  /\ secrets.has_auth /\ secrets.allow_kind \in {"list", "str"}
  /\ ~signed_in
  /\ SigninReturns("False")
  /\ typed' = <<typed[1], typed[2], FALSE>>
  /\ UNCHANGED <<kana_vars, score_vars, fetch_vars, secrets, signed_in, signin_attempts, user>>

\* The form was submitted with two of the entries a visitor may type.
SigninSubmit ==
  \E typed_id \in {"alice", "Alice ", "eve", ""}, password \in PasswordInputs :
  /\ a_pc = "check_signin"
  /\ secrets.has_auth /\ secrets.allow_kind \in {"list", "str"}
  /\ ~signed_in
  /\ typed' = <<typed_id, password, TRUE>>
  /\ LET user_id == Lower(Strip(typed_id)) IN
       IF user_id \notin AllowUsers(secrets)
       THEN SigninReturns("False") /\ UNCHANGED <<signed_in, signin_attempts, user>>
       ELSE IF PasswordOk(secrets, user_id, password)
       THEN /\ signed_in' = TRUE
            /\ user' = user_id
            /\ signin_attempts' = 0
            /\ RunEnds
       ELSE WrongPassword
  /\ UNCHANGED <<kana_vars, score_vars, fetch_vars, secrets>>

\* legacy_password_gate, signed in: return True
LegacySignedIn ==
  /\ a_pc = "check_signin"
  /\ ~secrets.has_auth /\ secrets.app_password # "none"
  /\ signed_in
  /\ SigninReturns("True")
  /\ UNCHANGED <<kana_vars, score_vars, fetch_vars, secrets, session_vars>>

\* legacy_password_gate, form not submitted: return False
LegacyNoSubmit ==
  /\ a_pc = "check_signin"
  /\ ~secrets.has_auth /\ secrets.app_password # "none"
  /\ ~signed_in
  /\ SigninReturns("False")
  /\ typed' = <<typed[1], typed[2], FALSE>>
  /\ UNCHANGED <<kana_vars, score_vars, fetch_vars, secrets, signed_in, signin_attempts, user>>

\* legacy_password_gate, form submitted
LegacySubmit ==
  \E password \in PasswordInputs :
  /\ a_pc = "check_signin"
  /\ ~secrets.has_auth /\ secrets.app_password # "none"
  /\ ~signed_in
  /\ typed' = <<"", password, TRUE>>
  /\ IF password = secrets.app_password
     THEN /\ signed_in' = TRUE
          /\ RunEnds
          /\ UNCHANGED <<signin_attempts, user>>
     ELSE WrongPassword
  /\ UNCHANGED <<kana_vars, score_vars, fetch_vars, secrets>>

\* Fault variant: the sidebar is built whatever check_signin returned.
SidebarShown_Always(v) == TRUE

\* if check_signin():
SidebarShown(v) == v = "True"

\* The test of that if.
IfSignin ==
  /\ a_pc = "after_signin"
  /\ a_pc' = IF SidebarShown(signin_ret) THEN "sidebar" ELSE "if_run"
  /\ UNCHANGED <<run, signin_ret, has_terms, relax_if_zero, ui_max_rows, items,
                 fetch_calls, hit_requests>>
  /\ UNCHANGED <<kana_vars, score_vars, fetch_vars, secrets, session_vars>>

\* The logout button was pressed.
SidebarLogout ==
  /\ a_pc = "sidebar"
  /\ signed_in' = FALSE
  /\ user' = "none"
  /\ RunEnds
  /\ UNCHANGED <<kana_vars, score_vars, fetch_vars, secrets, signin_attempts, typed>>

\* The widgets of the sidebar, down to run = st.button(...).
SidebarFilters ==
  /\ a_pc = "sidebar"
  /\ has_terms' \in BOOLEAN
  /\ relax_if_zero' \in BOOLEAN
  /\ ui_max_rows' \in {PageCap, PageCap + 500}   \* min_value 1000, step 500
  /\ run' \in BOOLEAN
  /\ a_pc' = "if_run"
  /\ UNCHANGED <<signin_ret, items, fetch_calls, hit_requests>>
  /\ UNCHANGED <<kana_vars, score_vars, fetch_vars, secrets, session_vars>>

\* if run: ... else: st.info(...)
IfRunElse ==
  /\ a_pc = "if_run"
  /\ ~run
  /\ RunEnds
  /\ UNCHANGED <<kana_vars, score_vars, fetch_vars, secrets, session_vars>>

\* None of disease, keywords, dept: st.warning, st.stop()
SearchNoTerms ==
  /\ a_pc = "if_run"
  /\ run
  /\ ~has_terms
  /\ RunEnds
  /\ UNCHANGED <<kana_vars, score_vars, fetch_vars, secrets, session_vars>>

\* build_query and the first call of fetch_eupmc_all
SearchFetch ==
  /\ a_pc = "if_run"
  /\ run
  /\ has_terms
  /\ FetchEnter(ui_max_rows)
  /\ fetch_calls' = fetch_calls + 1
  /\ a_pc' = "fetch"
  /\ UNCHANGED <<run, signin_ret, has_terms, relax_if_zero, ui_max_rows, items, hit_requests>>
  /\ UNCHANGED <<kana_vars, score_vars, secrets, session_vars>>

\* except Exception: st.error, st.stop(), for either call
SearchFetchError ==
  /\ a_pc \in {"fetch", "refetch"}
  /\ f_pc = "raised"
  /\ FetchLeave
  /\ RunEnds
  /\ UNCHANGED <<kana_vars, score_vars, secrets, session_vars>>

\* Fault variant: the relaxed search is made whenever the box is ticked.
RelaxNeeded_OnFlag(its, relax) == relax

\* if len(items) == 0 and relax_if_zero
RelaxNeeded(its, relax) == Len(its) = 0 /\ relax

\* items, total_hits = the pair returned, and the test for the relaxed search
SearchFetched ==
  /\ a_pc = "fetch"
  /\ f_pc = "done"
  /\ items' = fetch_ret[1]
  /\ a_pc' = IF RelaxNeeded(fetch_ret[1], relax_if_zero) THEN "relax" ELSE "summary"
  /\ FetchLeave
  /\ UNCHANGED <<run, signin_ret, has_terms, relax_if_zero, ui_max_rows, fetch_calls,
                 hit_requests>>
  /\ UNCHANGED <<kana_vars, score_vars, secrets, session_vars>>

\* The relaxed query and the second call of fetch_eupmc_all
SearchRelaxed ==
  /\ a_pc = "relax"
  /\ FetchEnter(ui_max_rows)
  /\ fetch_calls' = fetch_calls + 1
  /\ a_pc' = "refetch"
  /\ UNCHANGED <<run, signin_ret, has_terms, relax_if_zero, ui_max_rows, items, hit_requests>>
  /\ UNCHANGED <<kana_vars, score_vars, secrets, session_vars>>

\* items, total_hits = the pair the second call returned
SearchRefetched ==
  /\ a_pc = "refetch"
  /\ f_pc = "done"
  /\ items' = fetch_ret[1]
  /\ a_pc' = "summary"
  /\ FetchLeave
  /\ UNCHANGED <<run, signin_ret, has_terms, relax_if_zero, ui_max_rows, fetch_calls,
                 hit_requests>>
  /\ UNCHANGED <<kana_vars, score_vars, secrets, session_vars>>

\* get_hit_count: one request, whose failure is swallowed
SearchHitCount ==
  /\ a_pc = "summary"
  /\ hit_requests' = hit_requests + 1
  /\ a_pc' = "score"
  /\ UNCHANGED <<run, signin_ret, has_terms, relax_if_zero, ui_max_rows, items, fetch_calls>>
  /\ UNCHANGED <<kana_vars, score_vars, fetch_vars, secrets, session_vars>>

\* explode_authors, the tables and the downloads: the run ends.
SearchScore ==
  /\ a_pc = "score"
  /\ RunEnds
  /\ UNCHANGED <<kana_vars, score_vars, fetch_vars, secrets, session_vars>>

ScriptInit ==
  /\ KanaIdle
  /\ FetchIdle
  /\ secrets \in SecretsChoices
  /\ ScriptFresh
  /\ sc_pc = "idle" /\ sc_items = <<>> /\ df = <<>> /\ agg = <<>>

ScriptNext ==
  \/ ScriptStart
  \/ SigninNoAuthStop
  \/ SigninAllowUnset
  \/ SigninSignedIn
  \/ SigninNoSubmit
  \/ SigninSubmit
  \/ LegacySignedIn
  \/ LegacyNoSubmit
  \/ LegacySubmit
  \/ IfSignin
  \/ SidebarLogout
  \/ SidebarFilters
  \/ IfRunElse
  \/ SearchNoTerms
  \/ SearchFetch
  \/ FetchRaise
  \/ FetchEmptyPage
  \/ FetchLastPage
  \/ FetchNextPage
  \/ FetchLoopExit
  \/ FetchReturn
  \/ SearchFetchError
  \/ SearchFetched
  \/ SearchRelaxed
  \/ SearchRefetched
  \/ SearchHitCount
  \/ SearchScore

ScriptSpec == ScriptInit /\ [][ScriptNext]_vars

\* ------------------------------------------------ explode_authors, aggregate
\* Most authors of one article and most articles of one result list.
MaxAuthors == 2
MaxItems == 2

\* pick_main_affiliation for a list of strings. BeforeBar is
\* re.split(r"\s*\|\s*", first)[0], the text before the first bar; the
\* white space in front of the bar goes with the strip() that follows.
pick_main_affiliation(aff_value) ==
  LET parts == SelectSeq(aff_value, LAMBDA a : a # "")
      RECURSIVE BeforeBar(_)
      BeforeBar(x) ==
        IF x = "" \/ Ch(x, 0) = "|" THEN ""
        ELSE Ch(x, 0) \o BeforeBar(Slice(x, 1, Len(x)))
  IN  IF parts = <<>> THEN "" ELSE Strip(BeforeBar(Head(parts)))

\* Fault variant: every author scores 1.
BylineScore_Flat(idx) == 1

\* score = 2 if idx == 0 else 1
BylineScore(idx) == IF idx = 0 THEN 2 ELSE 1

\* explode_authors: one row per author of each record, in order. Of the
\* columns, the ones aggregate_author_scores reads and the author's place.
RECURSIVE explode_authors(_)
explode_authors(its) ==
  IF its = <<>> THEN <<>>
  ELSE LET rec == Head(its)
           authors == rec.authorList
           Row(idx) ==
             LET a == authors[idx + 1]
                 first == a.firstName
                 last == a.lastName
             IN  [PMID |-> rec.pmid,
                  AuthorOrder |-> idx + 1,
                  FullName |-> a.fullName,
                  FirstName |-> first,
                  LastName |-> last,
                  DisplayName |-> IF first # "" \/ last # ""
                                  THEN Strip(first \o " " \o last) ELSE a.fullName,
                  MainAffiliation |-> pick_main_affiliation(a.affiliation),
                  Score |-> BylineScore(idx)]
       IN  [k \in 1..Len(authors) |-> Row(k - 1)] \o explode_authors(Tail(its))

\* name_col: DisplayName where it is truthy, FullName elsewhere
AuthorOf(row) == IF row.DisplayName # "" THEN row.DisplayName ELSE row.FullName

\* a < b for two strings, as Python compares them: by code point, a proper
\* prefix before the longer string.
RECURSIVE StrLess(_, _)
StrLess(a, b) ==
  IF b = "" THEN FALSE
  ELSE IF a = "" THEN TRUE
  ELSE IF Ch(a, 0) # Ch(b, 0) THEN CodeOf[Ch(a, 0)] < CodeOf[Ch(b, 0)]
  ELSE StrLess(Slice(a, 1, Len(a)), Slice(b, 1, Len(b)))

\* base and out of aggregate_author_scores, before the columns are chosen:
\* groupby([Author, MainAff]) sums Score and leaves the groups in the order
\* of their keys; sort_values([Score, Author], [False, True]) is stable, so
\* groups equal in Score and Author stay in the order of MainAffiliation.
\* The Kana columns are the work of _kana_parts.
aggregate_author_scores(frame) ==
  IF frame = <<>> THEN frame
  ELSE
  LET keys == {<<AuthorOf(frame[k]), frame[k].MainAffiliation>> : k \in DOMAIN frame}
      RECURSIVE SumFrom(_, _)
      SumFrom(key, k) ==
        IF k > Len(frame) THEN 0
        ELSE (IF <<AuthorOf(frame[k]), frame[k].MainAffiliation>> = key
              THEN frame[k].Score ELSE 0) + SumFrom(key, k + 1)
      base == {[Author |-> key[1], MainAffiliation |-> key[2], Score |-> SumFrom(key, 1)] :
                 key \in keys}
      Before(p, q) ==
        \/ p.Score > q.Score
        \/ p.Score = q.Score /\ StrLess(p.Author, q.Author)
        \/ p.Score = q.Score /\ p.Author = q.Author
             /\ StrLess(p.MainAffiliation, q.MainAffiliation)
      RECURSIVE Sorted(_)
      Sorted(rest) ==
        IF rest = {} THEN <<>>
        ELSE LET top == CHOOSE p \in rest : \A q \in rest \ {p} : Before(p, q)
             IN  <<top>> \o Sorted(rest \ {top})
  IN  Sorted(base)

\* Result lists: up to MaxItems records of up to MaxAuthors authors each.
\* The authors the API may list have a given and a family name or a full
\* name only, an affiliation with a bar, blank entries, a lower-case name.
ItemChoices ==
  LET AuthorChoices ==
  { [firstName |-> "Taro", lastName |-> "Ito", fullName |-> "Ito T",
     affiliation |-> <<"Univ X | Dept A">>],
    [firstName |-> "Taro", lastName |-> "Ito", fullName |-> "Ito T",
     affiliation |-> <<"", "Univ Y">>],
    [firstName |-> "", lastName |-> "", fullName |-> "Abe K",
     affiliation |-> <<>>],
    [firstName |-> "ken", lastName |-> "", fullName |-> "",
     affiliation |-> <<" Univ X ">>] }
      lists == UNION {[1..n -> AuthorChoices] : n \in 0..MaxAuthors}
      Rec(p, l) == [pmid |-> p, authorList |-> l]
  IN  {<<>>} \cup {<<Rec("p1", l)>> : l \in lists}
      \cup (IF MaxItems >= 2
            THEN {<<Rec("p1", l), Rec("p2", m)>> : l \in lists, m \in lists}
            ELSE {})
      \cup (IF MaxItems >= 3
            THEN {<<Rec("p1", l), Rec("p2", l), Rec("p3", m)>> : l \in lists, m \in lists}
            ELSE {})

\* df = explode_authors(items)
ScoreExplode ==
  /\ sc_pc = "idle" /\ a_pc = "idle" /\ f_pc = "idle"
  /\ \E its \in ItemChoices :
       /\ sc_items' = its
       /\ df' = explode_authors(its)
  /\ sc_pc' = "exploded"
  /\ UNCHANGED <<kana_vars, fetch_vars, script_vars, agg>>

\* agg = aggregate_author_scores(df, ...), up to the sort
ScoreAggregate ==
  /\ sc_pc = "exploded"
  /\ agg' = aggregate_author_scores(df)
  /\ sc_pc' = "aggregated"
  /\ UNCHANGED <<kana_vars, fetch_vars, script_vars, sc_items, df>>

\* The tables are shown and the run is over.
ScoreFinished ==
  /\ sc_pc = "aggregated"
  /\ sc_pc' = "idle" /\ sc_items' = <<>> /\ df' = <<>> /\ agg' = <<>>
  /\ UNCHANGED <<kana_vars, fetch_vars, script_vars>>

ScoreSpec == Init /\ [][ScoreExplode \/ ScoreAggregate \/ ScoreFinished]_vars

\* ------------------------------------------------------------------ claims

\* C1. Family-name override precedence: when the lower-cased family name is
\* a key of KATAKANA_LASTNAME_OVERRIDE, the family katakana _kana_parts
\* returns is the override value, for both values of long_vowel and of
\* surname_long_o ("ito" gives "イトウ", "saito" gives "サイトウ").
FamilyOverridePrecedence ==
  (pc = "done" /\ op = "kana_parts") =>
     /\ Lower(Str(ln)) \in DOMAIN KATAKANA_LASTNAME_OVERRIDE
          => Str(ln_kana) = KATAKANA_LASTNAME_OVERRIDE[Lower(Str(ln))]
     /\ Lower(Str(ln)) = "ito" => Str(ln_kana) = "イトウ"
     /\ Lower(Str(ln)) = "saito" => Str(ln_kana) = "サイトウ"

\* A capitalised override key whose rule conversion differs from the override
\* ("サイト"), resolved with the long-o option set.
FamilyOverrideWitness ==
  /\ pc = "done" /\ op = "kana_parts"
  /\ Str(ln) = "SAITO" /\ surname_long_o /\ ~long_vowel
  /\ Str(ln_kana) = "サイトウ"
  /\ RomanToKatakana("SAITO", FALSE) = "サイト"

\* C2. Given-name override precedence: when the lower-cased given name is a
\* key of KATAKANA_FIRSTNAME_OVERRIDE, the given katakana is the override
\* value, and neither the ryo rewrite nor roman_to_katakana is applied to
\* the given name ("kenichi" gives "ケンイチ", "taro" gives "タロウ").
GivenOverridePrecedence ==
  (pc = "done" /\ op = "kana_parts") =>
     /\ Lower(Str(fn)) \in DOMAIN KATAKANA_FIRSTNAME_OVERRIDE
          => /\ Str(fn_kana) = KATAKANA_FIRSTNAME_OVERRIDE[Lower(Str(fn))]
             /\ fn_proc = Unbound
             /\ "kp_fn" \notin converted
     /\ Lower(Str(fn)) = "kenichi" => Str(fn_kana) = "ケンイチ"
     /\ Lower(Str(fn)) = "taro" => Str(fn_kana) = "タロウ"

\* An override key with "ryo" before "i", which the rewrite and the converter
\* would render "リョウイイチ".
GivenOverrideWitness ==
  /\ pc = "done" /\ op = "kana_parts"
  /\ Str(fn) = "ryoichi" /\ ~long_vowel
  /\ Str(fn_kana) = "リョウイチ"
  /\ RomanToKatakana(RyoRewrite("ryoichi"), FALSE) = "リョウイイチ"

\* C3. Assembly: the full katakana is the family katakana immediately
\* followed by the given katakana, in _kana_parts and in
\* to_katakana_fullname, where the parts are the conversions of last and
\* first ("tanaka" and "taro" resolve to "タナカタロウ").
AssemblyFamilyThenGiven ==
  pc = "done" =>
     /\ op \in {"kana_parts", "fullname"} => kana_name = ln_kana \o fn_kana
     /\ op = "fullname" =>
          Str(kana_name) = RomanToKatakana(Str(ln), long_vowel)
                             \o RomanToKatakana(Str(fn), long_vowel)
     /\ (op = "kana_parts" /\ Str(ln) = "tanaka" /\ Str(fn) = "taro")
          => Str(kana_name) = "タナカタロウ"

AssemblyWitness ==
  /\ pc = "done" /\ op = "kana_parts"
  /\ Str(ln) = "tanaka" /\ Str(fn) = "taro"
  /\ Str(ln_kana) = "タナカ" /\ Str(fn_kana) = "タロウ"
  /\ Str(kana_name) = "タナカタロウ"

\* C4. Termination without error: each iteration of the loop of
\* roman_to_katakana strictly increases the cursor and the loop runs at most
\* len(cleaned token) iterations; until the cursor reaches the end one of
\* the steps of the loop body applies, and the call then returns a string.
RomanToKatakanaTerminates ==
  /\ [](pc = "r2k_loop" => iters <= Len(s) /\ iters <= i)
  /\ [](pc = "r2k_loop" /\ i < Len(s) =>
          Rule(s, i) \in {"geminate", "tri", "di3", "di2", "n_vowel", "n_y", "n_alone",
                          "cons_vowel", "vowel", "drop"})
  /\ [][(pc = "r2k_loop" /\ pc' = "r2k_loop") => i' > i]_vars
  /\ [][(pc \in {"r2k", "r2k_oh", "r2k_loop"} /\ pc' \notin {"r2k", "r2k_oh", "r2k_loop"}) => (ln_kana' \in Seq(Nat) /\ fn_kana' \in Seq(Nat))]_vars

\* The loop has just run len(s) iterations on a token that held non-letters.
TerminationWitness ==
  /\ pc = "r2k_loop" /\ i >= Len(s)
  /\ Len(s) > 0 /\ iters = Len(s)
  /\ Len(tok) > Len(s)

\* C5. Determinism: what a call returns is a function of its arguments
\* (family name, given name, long_vowel, surname_long_o) alone, whatever
\* conversions ran before it, in the same call or in earlier ones.
ResultDependsOnArgumentsOnly ==
  pc = "done" =>
     /\ op = "kana_parts" =>
          /\ Str(ln_kana) = FamilyKana(Str(ln), long_vowel, surname_long_o)
          /\ Str(fn_kana) = GivenKana(Str(fn), long_vowel)
          /\ Str(kana_name) = FamilyKana(Str(ln), long_vowel, surname_long_o)
                                \o GivenKana(Str(fn), long_vowel)
     /\ op = "fullname" =>
          /\ Str(ln_kana) = RomanToKatakana(Str(ln), long_vowel)
          /\ Str(fn_kana) = RomanToKatakana(Str(fn), long_vowel)
     /\ op = "long_o" =>
          Str(returned) = apply_surname_long_o(Str(ln_lower), Str(ln_kana))

\* Two conversions ran one after the other in the same call.
DeterminismWitness ==
  /\ pc = "done" /\ op = "fullname"
  /\ converted = {"fullname_last", "fullname_first"}
  /\ Str(ln) = "kitta" /\ Str(fn) = "taro"
  /\ Str(ln_kana) = "キッタ" /\ Str(fn_kana) = "タロ"

\* C6. Empty part: an empty family name gives an empty family katakana and
\* a full katakana equal to the given katakana; an empty given name gives an
\* empty given katakana and a full katakana equal to the family katakana
\* (family "", given "yuta" gives "", "ユウタ", "ユウタ").
EmptyPart ==
  (pc = "done" /\ op \in {"kana_parts", "fullname"}) =>
     /\ ln = <<>> => (ln_kana = <<>> /\ kana_name = fn_kana)
     /\ fn = <<>> => (fn_kana = <<>> /\ kana_name = ln_kana)
     /\ (op = "kana_parts" /\ ln = <<>> /\ Str(fn) = "yuta")
          => (Str(fn_kana) = "ユウタ" /\ Str(kana_name) = "ユウタ")

EmptyPartWitness ==
  /\ pc = "done" /\ op = "kana_parts"
  /\ ln = <<>> /\ Str(fn) = "yuta" /\ surname_long_o
  /\ ln_kana = <<>> /\ Str(fn_kana) = "ユウタ" /\ Str(kana_name) = "ユウタ"

\* C7. The long-o rule is confined to LONG_O_SURNAMES: for a lower-cased
\* family name outside the set apply_surname_long_o returns its katakana
\* unchanged, and _kana_parts gives the name the family katakana it gives
\* with surname_long_o disabled.
LongOConfined ==
  /\ (op = "long_o" /\ pc = "done" /\ Str(ln_lower) \notin LONG_O_SURNAMES)
       => returned = ln_kana
  /\ (op = "kana_parts" /\ pc = "kp_fn" /\ Str(ln_lower) \notin LONG_O_SURNAMES)
       => Str(ln_kana) = FamilyKana(Str(ln), long_vowel, FALSE)

\* A name in "to" outside the set, katakana in "ト", option enabled.
LongOConfinedWitness ==
  /\ op = "kana_parts" /\ pc = "kp_fn" /\ surname_long_o
  /\ Str(ln) = "koto" /\ Str(ln_kana) = "コト"

\* C8. Long-o elongation: for a name of LONG_O_SURNAMES whose rule-converted
\* katakana ends in "ト" or "ド", apply_surname_long_o returns that katakana
\* followed by "ウ"; _kana_parts applies the function to a name outside the
\* family overrides exactly when surname_long_o is set, and with the option
\* unset the family katakana is the unmodified override or conversion.
LongOElongation ==
  /\ (/\ op = "long_o" /\ pc = "done"
      /\ Str(ln_lower) \in LONG_O_SURNAMES
      /\ \E lv \in BOOLEAN : Str(ln_kana) = RomanToKatakana(Str(ln_lower), lv)
      /\ EndsWith(Str(ln_kana), "ト") \/ EndsWith(Str(ln_kana), "ド"))
       => Str(returned) = Str(ln_kana) \o "ウ"
  /\ (/\ op = "kana_parts" /\ pc = "kp_fn"
      /\ Str(ln_lower) \notin DOMAIN KATAKANA_LASTNAME_OVERRIDE)
       => Str(ln_kana) =
            IF surname_long_o
            THEN apply_surname_long_o(Str(ln_lower), RomanToKatakana(Str(ln), long_vowel))
            ELSE RomanToKatakana(Str(ln), long_vowel)
  /\ (op = "kana_parts" /\ pc = "kp_fn" /\ ~surname_long_o)
       => Str(ln_kana) = IF LastNameHit(Str(ln_lower))
                         THEN KATAKANA_LASTNAME_OVERRIDE[Str(ln_lower)]
                         ELSE RomanToKatakana(Str(ln), long_vowel)

LongOElongationWitness ==
  /\ op = "long_o" /\ pc = "done"
  /\ Str(ln_lower) = "ando" /\ Str(ln_kana) = "アンド"
  /\ Str(returned) = "アンドウ"

\* C9. Macron normalization: before segmentation a, i, u, e with macron or
\* circumflex are replaced by the doubled vowel and o with macron or
\* circumflex by "ou", never "oo"; "kato" with a macron on the o is cleaned
\* to "katou" and converted to "カトウ".
MacronNormalization ==
  /\ pc = "r2k_oh" =>
       LET Spelled(c) ==
             IF c \in {"ä", "â", "Ä", "Â"} THEN "aa"
             ELSE IF c \in {"ï", "î", "Ï", "Î"} THEN "ii"
             ELSE IF c \in {"ü", "û", "Ü", "Û"} THEN "uu"
             ELSE IF c \in {"ë", "ê", "Ë", "Ê"} THEN "ee"
             ELSE IF c \in {"ö", "ô", "Ö", "Ô"} THEN "ou"
             ELSE StripNonLetters(Lower(c))
       IN  s = Join([k \in 1..Len(tok) |-> Spelled(CharOf[tok[k]])])
  /\ (pc = "r2k_oh" /\ Str(tok) \in {"katö", "katô", "KATÖ"}) => s = "katou"
  /\ (pc = "done" /\ op = "fullname" /\ Str(ln) \in {"katö", "katô", "KATÖ"})
       => Str(ln_kana) = "カトウ"

MacronWitness ==
  /\ pc = "done" /\ op = "fullname"
  /\ Str(ln) = "katö" /\ ~long_vowel
  /\ Str(ln_kana) = "カトウ"
  /\ RomanToKatakana("katoo", FALSE) = "カトオ"

\* C10. The "oh" rewrite: in the cleaned token every "oh" followed by a
\* consonant or by the end of the token becomes "ou", an "oh" followed by a
\* vowel stays, and no other character changes, for both values of
\* long_vowel.
OhRewriting ==
  (pc = "r2k_loop" /\ iters = 0) =>
     LET c == Clean(Str(tok))
         Rewritten(p) ==
           /\ p >= 1 /\ Ch(c, p - 1) = "o" /\ Ch(c, p) = "h"
           /\ (p + 1 >= Len(c) \/ Ch(c, p + 1) \notin {"a", "i", "u", "e", "o"})
     IN  /\ Len(s) = Len(c)
         /\ \A p \in 0..(Len(c) - 1) :
              Ch(s, p) = IF Rewritten(p) THEN "u" ELSE Ch(c, p)

\* "oh" before a vowel and "oh" at the end in one token, long_vowel unset.
OhRewritingWitness ==
  /\ pc = "r2k_loop" /\ iters = 0 /\ ~long_vowel
  /\ Str(tok) = "ohaoh" /\ s = "ohaou"

\* C11. Cluster precedence: whenever the three characters at the cursor are
\* a key of TRI_MAP and the geminate test fails, the iteration appends that
\* key's katakana and advances the cursor by 3; "kyaku" converts to "キャク"
\* and "nya" to "ニャ", never to the units of "ki"+"ya"+"ku" or "ni"+"ya".
ClusterPrecedence ==
  /\ [][(/\ pc = "r2k_loop" /\ i + 3 <= Len(s)
         /\ SubSeq(s, i + 1, i + 3) \in DOMAIN TRI_MAP
         /\ ~(Ch(s, i) = Ch(s, i + 1) /\ Ch(s, i) \notin {"a", "e", "i", "o", "u", "n"}))
        => (/\ out' = Append(out, Codes(TRI_MAP[SubSeq(s, i + 1, i + 3)]))
            /\ i' = i + 3
            /\ pc' = "r2k_loop")]_vars
  /\ [](pc = "done" /\ op = "fullname" =>
          /\ Str(ln) = "kyaku" => Str(ln_kana) = "キャク" /\ Str(ln_kana) # "キヤク"
          /\ Str(ln) = "nya" => Str(ln_kana) = "ニャ" /\ Str(ln_kana) # "ニヤ")

\* The cluster "kya" of "kyaku" has just been taken.
ClusterWitness ==
  /\ pc = "r2k_loop" /\ Str(tok) = "kyaku" /\ s = "kyaku"
  /\ i = 3 /\ iters = 1 /\ out = <<Codes("キャ")>>

\* C12. Geminate: whenever the character at the cursor equals the next one
\* and is a consonant other than "n", the iteration appends exactly one "ッ"
\* and advances the cursor by exactly 1; "ッ" is appended in no other case,
\* so a doubled "n" or a doubled vowel never yields it; "kitta" converts to
\* "キッタ".
GeminateStep ==
  /\ [][(/\ pc = "r2k_loop" /\ i + 1 < Len(s)
         /\ Ch(s, i) = Ch(s, i + 1)
         /\ Ch(s, i) \notin {"a", "e", "i", "o", "u", "n"})
        => (out' = Append(out, Codes("ッ")) /\ i' = i + 1 /\ pc' = "r2k_loop")]_vars
  /\ [][(/\ pc = "r2k_loop" /\ out' # out
         /\ out'[Len(out')] = Codes("ッ"))
        => (/\ i + 1 < Len(s) /\ Ch(s, i) = Ch(s, i + 1)
            /\ Ch(s, i) \notin {"a", "e", "i", "o", "u", "n"})]_vars
  /\ [](pc = "done" /\ op = "fullname" /\ Str(ln) = "kitta" => Str(ln_kana) = "キッタ")

\* The first "t" of "kitta" has been taken, the second starts the next unit.
GeminateWitness ==
  /\ pc = "r2k_loop" /\ Str(tok) = "kitta" /\ s = "kitta"
  /\ i = 3 /\ out = <<Codes("キ"), Codes("ッ")>>

\* C13. Syllabic n: with the cursor on "n" and no key of TRI_MAP or DI_MAP
\* matching there, (i) before a vowel the iteration appends ナ/ニ/ヌ/ネ/ノ
\* and advances 2, (ii) else before "y" it appends "ニ" and advances 1,
\* (iii) otherwise, at the end of the token or before another consonant, it
\* appends "ン" and advances 1.
SyllabicN ==
  [][(/\ pc = "r2k_loop" /\ i < Len(s) /\ Ch(s, i) = "n"
      /\ Slice(s, i, i + 3) \notin DOMAIN TRI_MAP
      /\ Slice(s, i, i + 3) \notin DOMAIN DI_MAP
      /\ Slice(s, i, i + 2) \notin DOMAIN DI_MAP)
     => LET next == IF i + 1 < Len(s) THEN Ch(s, i + 1) ELSE ""
            kana == [a |-> "ナ", i |-> "ニ", u |-> "ヌ", e |-> "ネ", o |-> "ノ"]
        IN  /\ pc' = "r2k_loop"
            /\ next \in {"a", "i", "u", "e", "o"}
                 => (out' = Append(out, Codes(kana[next])) /\ i' = i + 2)
            /\ next = "y" => (out' = Append(out, Codes("ニ")) /\ i' = i + 1)
            /\ next \notin {"a", "i", "u", "e", "o", "y"}
                 => (out' = Append(out, Codes("ン")) /\ i' = i + 1)]_vars

\* "nan": n before a vowel, then n at the end of the token.
SyllabicNWitness ==
  /\ pc = "r2k_loop" /\ s = "nan"
  /\ i = 3 /\ out = <<Codes("ナ"), Codes("ン")>>

\* C14. Given-name ryo heuristic: for a given name whose lower-cased form is
\* no key of KATAKANA_FIRSTNAME_OVERRIDE, the given katakana is the
\* conversion of the lower-cased name in which every "ryo" before a
\* consonant or at the end has become "ryou" and every "ryo" before "i" has
\* become "ryoui" (the "i" itself stays); a "ryo" before a, e, o or u is
\* left as it is.
RyoHeuristic ==
  (pc = "done" /\ op = "kana_parts"
     /\ Lower(Str(fn)) \notin DOMAIN KATAKANA_FIRSTNAME_OVERRIDE) =>
     LET x == Lower(Str(fn))
         After(p) ==
           IF p >= 3 /\ SubSeq(x, p - 2, p) = "ryo"
           THEN IF p = Len(x) THEN "u"
                ELSE IF SubSeq(x, p + 1, p + 1) \in
                          {"b", "c", "d", "f", "g", "h", "j", "k", "l", "m", "n", "p",
                           "q", "r", "s", "t", "v", "w", "x", "y", "z"} THEN "u"
                ELSE IF SubSeq(x, p + 1, p + 1) = "i" THEN "ui"
                ELSE ""
           ELSE ""
         rewritten == Join([p \in 1..Len(x) |-> SubSeq(x, p, p) \o After(p)])
     IN  /\ Str(fn_proc) = rewritten
         /\ Str(fn_kana) = RomanToKatakana(rewritten, long_vowel)
         /\ x = "ryok" => Str(fn_kana) = "リョウ"
         /\ x = "aryo" => Str(fn_kana) = "アリョウ"
         /\ x = "ryoiti" => Str(fn_proc) = "ryouiiti"
         /\ x = "ryoa" => Str(fn_kana) = "リョア"
         /\ x = "ryoe" => Str(fn_kana) = "リョエ"

\* A name with "ryo" before "i" and no override.
RyoWitness ==
  /\ pc = "done" /\ op = "kana_parts"
  /\ Str(fn) = "ryoiti" /\ Str(fn_proc) = "ryouiiti"
  /\ Str(fn_kana) = "リョウイイティ"

\* C15. Long-vowel post-processing: with long_vowel set the value returned by
\* roman_to_katakana is the concatenation of the appended units from which
\* the last character of every "オウウ" has been removed; with long_vowel
\* unset it is exactly the concatenation of the appended units.
LongVowelPostProcessing ==
  [][(pc = "r2k_loop" /\ pc' # "r2k_loop") =>
       LET joined == Join([k \in 1..Len(out) |-> Str(out[k])])
           kept(p) == IF p >= 3 /\ SubSeq(joined, p - 2, p) = "オウウ"
                      THEN "" ELSE SubSeq(joined, p, p)
           collapsed == Join([p \in 1..Len(joined) |-> kept(p)])
           result == IF ret \in {"kp_ln", "fullname_last"} THEN Str(ln_kana')
                     ELSE Str(fn_kana')
       IN  /\ long_vowel => result = collapsed
           /\ ~long_vowel => result = joined
           /\ s = "ouu" => result = IF long_vowel THEN "オウ" ELSE "オウウ"
           /\ s = "kouu" => result = "コウウ"]_vars

\* "ouu" converted with the option set: the units オ ウ ウ return as オウ.
LongVowelWitness ==
  /\ pc = "fullname_first" /\ op = "fullname" /\ long_vowel
  /\ Str(ln) = "ouu" /\ out = <<Codes("オ"), Codes("ウ"), Codes("ウ")>>
  /\ Str(ln_kana) = "オウ"

\* C16 as claimed. Non-letter stripping: roman_to_katakana(t, f) equals
\* roman_to_katakana(t', f) for t' the token lower-cased, macron-replaced and
\* stripped of every character outside a-z; a token with no ASCII letter and
\* no macron (or circumflex) vowel converts to the empty string.
NonLetterStrippingAsClaimed ==
  (pc = "done" /\ op = "fullname") =>
     \A t \in {Str(ln), Str(fn)} :
       LET kat == IF t = Str(ln) THEN Str(ln_kana) ELSE Str(fn_kana)
           Spelled(c) ==
             IF c \in {"ä", "â", "Ä", "Â"} THEN "aa"
             ELSE IF c \in {"ï", "î", "Ï", "Î"} THEN "ii"
             ELSE IF c \in {"ü", "û", "Ü", "Û"} THEN "uu"
             ELSE IF c \in {"ë", "ê", "Ë", "Ê"} THEN "ee"
             ELSE IF c \in {"ö", "ô", "Ö", "Ô"} THEN "ou"
             ELSE LET low == IF c \in DOMAIN LowerOf THEN LowerOf[c] ELSE c
                  IN  Join([k \in 1..Len(low) |->
                              IF SubSeq(low, k, k) \in LETTERS THEN SubSeq(low, k, k)
                              ELSE ""])
           stripped == Join([k \in 1..Len(t) |-> Spelled(SubSeq(t, k, k))])
           AsciiLetterOrMacron(c) ==
             \/ c \in LETTERS
             \/ c \in {"A", "B", "C", "D", "E", "F", "G", "H", "I", "J", "K", "L", "M",
                       "N", "O", "P", "Q", "R", "S", "T", "U", "V", "W", "X", "Y", "Z"}
             \/ c \in {"ä", "ï", "ü", "ë", "ö", "Ä", "Ï", "Ü", "Ë", "Ö",
                       "â", "î", "û", "ê", "ô", "Â", "Î", "Û", "Ê", "Ô"}
       IN  /\ kat = RomanToKatakana(stripped, long_vowel)
           /\ (\A k \in 1..Len(t) : ~AsciiLetterOrMacron(SubSeq(t, k, k))) => kat = ""

\* C16, amended. As above, for a token with no ASCII letter, no macron or
\* circumflex vowel and no capital I with dot above (U+0130, whose lower-case
\* form begins with the ASCII letter "i").
NonLetterStripping ==
  (pc = "done" /\ op = "fullname") =>
     \A t \in {Str(ln), Str(fn)} :
       LET kat == IF t = Str(ln) THEN Str(ln_kana) ELSE Str(fn_kana)
           Spelled(c) ==
             IF c \in {"ä", "â", "Ä", "Â"} THEN "aa"
             ELSE IF c \in {"ï", "î", "Ï", "Î"} THEN "ii"
             ELSE IF c \in {"ü", "û", "Ü", "Û"} THEN "uu"
             ELSE IF c \in {"ë", "ê", "Ë", "Ê"} THEN "ee"
             ELSE IF c \in {"ö", "ô", "Ö", "Ô"} THEN "ou"
             ELSE LET low == IF c \in DOMAIN LowerOf THEN LowerOf[c] ELSE c
                  IN  Join([k \in 1..Len(low) |->
                              IF SubSeq(low, k, k) \in LETTERS THEN SubSeq(low, k, k)
                              ELSE ""])
           stripped == Join([k \in 1..Len(t) |-> Spelled(SubSeq(t, k, k))])
           LowersToLetter(c) ==
             \/ c \in LETTERS
             \/ c \in {"A", "B", "C", "D", "E", "F", "G", "H", "I", "J", "K", "L", "M",
                       "N", "O", "P", "Q", "R", "S", "T", "U", "V", "W", "X", "Y", "Z"}
             \/ c \in {"ä", "ï", "ü", "ë", "ö", "Ä", "Ï", "Ü", "Ë", "Ö",
                       "â", "î", "û", "ê", "ô", "Â", "Î", "Û", "Ê", "Ô"}
             \/ c = "Ì"
       IN  /\ kat = RomanToKatakana(stripped, long_vowel)
           /\ (\A k \in 1..Len(t) : ~LowersToLetter(SubSeq(t, k, k))) => kat = ""

\* A token of katakana only went through the converter and came back empty.
NonLetterWitness ==
  /\ pc = "done" /\ op = "fullname"
  /\ Str(ln) = "タナカ" /\ "fullname_last" \in converted
  /\ ln_kana = <<>>

\* C17. No shared mutable state: with several conversions in flight and
\* their steps interleaved in any order, each call returns what it returns
\* when run alone, the value of the function of its own arguments.
ConcurrentCallsIndependent ==
  \A w \in Workers :
    pc[w] = "done" =>
      Str(ln_kana[w]) = FamilyKana(Str(ln[w]), long_vowel[w], surname_long_o[w])

\* One call has returned while the other is in the middle of its loop.
ConcurrentWitness ==
  /\ pc[1] = "done" /\ Str(ln[1]) = "kitta" /\ Str(ln_kana[1]) = "キッタ"
  /\ pc[2] = "r2k_loop" /\ Str(ln[2]) = "nan" /\ i[2] = 2 /\ out[2] = <<Codes("ナ")>>

\* C18. The long-vowel option as the interface labels it: with long_vowel
\* set, a name without an override is given its long vowel, the token "Ko"
\* being rendered "コウ".
LongVowelOptionAsLabelled ==
  /\ (pc = "done" /\ op = "fullname" /\ long_vowel /\ Str(ln) = "Ko")
       => Str(ln_kana) = "コウ"
  /\ (pc = "done" /\ op = "kana_parts" /\ long_vowel /\ Str(ln) = "Ko"
        /\ ~LastNameHit(Lower(Str(ln))))
       => Str(ln_kana) = "コウ"
  /\ (pc = "done" /\ op = "kana_parts" /\ long_vowel /\ Str(fn) = "Ko"
        /\ ~FirstNameHit(Lower(Str(fn))))
       => Str(fn_kana) = "コウ"

\* C19. fetch_eupmc_all returns at most max_rows records: for every
\* max_rows >= 0 and every sequence of API responses, the returned list is
\* no longer than max_rows and is a prefix of the concatenation of the
\* fetched pages in fetch order.
FetchAtMostMaxRows ==
  f_pc = "done" =>
    /\ Len(fetch_ret[1]) <= max_rows
    /\ Len(fetch_ret[1]) <= served
    /\ \A k \in 1..Len(fetch_ret[1]) : fetch_ret[1][k] = k
    /\ Len(fetch_ret[1]) = IF served < max_rows THEN served ELSE max_rows

\* Two pages were fetched, 2000 items for max_rows = 1001: the slice cuts.
FetchWitness ==
  /\ f_pc = "done" /\ max_rows = PageCap + 1
  /\ n_requests = 2 /\ served = 2 * PageCap
  /\ Len(fetch_ret[1]) = PageCap + 1


\* C20. Search only after authentication: in every run of the script the
\* search block (query, fetch_eupmc_all, hit count, scoring) executes only
\* if check_signin() returned True in that run, the session being signed
\* in; while the session is not signed in, run is False, no call of
\* fetch_eupmc_all is under way and no request to the literature API has
\* been made in the run, and no step makes one.
SearchOnlyAfterSignin ==
  /\ [](a_pc \in {"fetch", "relax", "refetch", "summary", "score"}
          => (signin_ret = "True" /\ signed_in /\ run))
  /\ [](~signed_in
          => (~run /\ f_pc = "idle" /\ fetch_calls = 0 /\ hit_requests = 0))
  /\ [](signin_ret # "True" => ~run)
  /\ [][(n_requests' > n_requests \/ fetch_calls' > fetch_calls
           \/ hit_requests' > hit_requests)
          => (signin_ret = "True" /\ signed_in /\ run)]_vars

\* alice is signed in; her search found nothing, was relaxed, and the hit
\* count has been asked for.
SearchWitness ==
  /\ a_pc = "score" /\ signed_in /\ user = "alice" /\ signin_ret = "True" /\ run
  /\ fetch_calls = 2 /\ hit_requests = 1

\* C21. Cursor bound: every iteration of the segmentation loop advances the
\* cursor by exactly the number of characters of the cleaned token that the
\* matched step consumed (the length of the matched key, 2 for a consonant
\* or n with its vowel, 1 otherwise), so that in every state of the loop,
\* its exit included, 0 <= cursor <= length of the cleaned token.
CursorBound ==
  /\ [](pc = "r2k_loop" => (0 <= i /\ i <= Len(s)))
  /\ [][(pc = "r2k_loop" /\ pc' = "r2k_loop")
          => i' - i = (LET r == Rule(s, i) IN
                       IF r \in {"tri", "di3"} THEN Len(Slice(s, i, i + 3))
                       ELSE IF r \in {"di2", "n_vowel", "cons_vowel"} THEN 2
                       ELSE 1)]_vars

\* C22. Only consonants are dropped: an iteration that appends no unit
\* stands on a consonant other than "n" and advances the cursor by 1; an
\* iteration whose consumed characters hold a vowel or an "n" appends one
\* non-empty unit; and a token whose cleaned form holds a vowel or an "n"
\* never converts to the empty string.
OnlyConsonantsDropped ==
  /\ [][(pc = "r2k_loop" /\ pc' = "r2k_loop" /\ out' = out)
          => (/\ Ch(s, i) \in CONSONANTS \ {"n"}
              /\ i' = i + 1)]_vars
  /\ [][(/\ pc = "r2k_loop" /\ pc' = "r2k_loop"
         /\ \E k \in i..(Min(i', Len(s)) - 1) : Ch(s, k) \in VOWELS \cup {"n"})
          => (/\ Len(out') = Len(out) + 1
              /\ out'[Len(out')] # <<>>)]_vars
  /\ []((/\ pc = "done" /\ op = "fullname"
         /\ \E k \in 0..(Len(Clean(Str(ln))) - 1) :
              Ch(Clean(Str(ln)), k) \in VOWELS \cup {"n"})
          => ln_kana # <<>>)

\* The trailing "h" of "tah" has just been dropped: no unit for it.
DropWitness ==
  /\ pc = "r2k_loop" /\ s = "tah" /\ i = 3 /\ iters = 2
  /\ out = <<Codes("タ")>>

\* C23 as claimed. With long_vowel true the string roman_to_katakana returns
\* never contains "オウウ", whatever the token ("ouuu" included).
NoLongOUAsClaimed ==
  LET Holds(kat) == \E p \in 1..(Len(kat) - 2) : SubSeq(kat, p, p + 2) = Codes("オウウ")
  IN  (pc = "done" /\ op = "fullname" /\ long_vowel)
        => (~Holds(ln_kana) /\ ~Holds(fn_kana))

\* C23, amended. With long_vowel true the string roman_to_katakana returns
\* contains "オウウ" only if the concatenation of the appended units
\* contains "オウウウ", an オ followed by three ウ or more: the replacement
\* is one pass over non-overlapping matches, and "ouuu" returns "オウウ".
NoLongOUnlessTripled ==
  [][(pc = "r2k_loop" /\ pc' # "r2k_loop" /\ long_vowel) =>
       LET joined == Join([k \in 1..Len(out) |-> Str(out[k])])
           result == IF ret \in {"kp_ln", "fullname_last"} THEN Str(ln_kana')
                     ELSE Str(fn_kana')
           Holds(kat, sub) ==
             \E p \in 1..(Len(kat) - Len(sub) + 1) : SubSeq(kat, p, p + Len(sub) - 1) = sub
       IN  /\ Holds(result, "オウウ") => Holds(joined, "オウウウ")
           /\ s = "ouuu" => result = "オウウ"]_vars

\* "ouuu" converted with the option set: the result still holds オウウ.
TripledWitness ==
  /\ pc = "fullname_first" /\ op = "fullname" /\ long_vowel
  /\ Str(ln) = "ouuu" /\ Len(out) = 4
  /\ Str(ln_kana) = "オウウ"

\* C24. With the shipped tables surname_long_o influences no output: the
\* step of _kana_parts that the flag guards never changes the family
\* katakana, so the three values returned are those of the call without the
\* flag, for every family name, given name and long_vowel; every name of
\* LONG_O_SURNAMES in "to" or "do" is a key of the family overrides.
SurnameFlagInert ==
  /\ [][pc = "kp_long_o" => ln_kana' = ln_kana]_vars
  /\ []((pc = "done" /\ op = "kana_parts")
          => (/\ Str(ln_kana) = FamilyKana(Str(ln), long_vowel, FALSE)
              /\ Str(kana_name) = FamilyKana(Str(ln), long_vowel, FALSE) \o Str(fn_kana)))
  /\ [](\A n \in LONG_O_SURNAMES :
          (EndsWith(n, "to") \/ EndsWith(n, "do")) => n \in DOMAIN KATAKANA_LASTNAME_OVERRIDE)

\* "saitou" is in LONG_O_SURNAMES and has no override: the function was
\* applied, the flag being set, and returned the katakana as it was.
SurnameFlagWitness ==
  /\ pc = "kp_fn" /\ op = "kana_parts" /\ surname_long_o
  /\ Str(ln) = "saitou" /\ Str(ln_lower) \in LONG_O_SURNAMES
  /\ Str(ln_lower) \notin DOMAIN KATAKANA_LASTNAME_OVERRIDE
  /\ Str(ln_kana) = "サイトウ"

\* C25. Tolerance of embedded non-letters in the resolution of a full name
\* (override lookup, ryo rewrite, conversion): a family or given name with
\* embedded punctuation or digits yields the katakana of the same name
\* without those characters; "ito1" resolves like "ito", "ryo-ta" like
\* "ryota".
EmbeddedNonLettersIgnored ==
  LET Marks == {"0", "1", "2", "3", "4", "5", "6", "7", "8", "9", "-", ".", " "}
      Bare(x) == Join([k \in 1..Len(x) |->
                         IF SubSeq(x, k, k) \in Marks THEN "" ELSE SubSeq(x, k, k)])
  IN  (pc = "done" /\ op = "kana_parts")
        => (/\ Str(ln_kana) = FamilyKana(Bare(Str(ln)), long_vowel, surname_long_o)
            /\ Str(fn_kana) = GivenKana(Bare(Str(fn)), long_vowel))

\* C26. Sign-in safety: with an [auth] section, signed_in changes from False
\* to True only in a step of check_signin in which the form was submitted
\* with a user id of the allow-list and a password equal to that user's
\* individual password if one is configured, otherwise to the common
\* password if one is configured; a user id outside the allow-list, or an
\* allowed user with neither password configured, never signs in.
SigninSafety ==
  [][(secrets.has_auth /\ ~signed_in /\ signed_in') =>
       LET user_id == Lower(Strip(typed'[1]))
           password == typed'[2]
           individual == secrets.dotted_users @@ secrets.auth_users
       IN  /\ a_pc = "check_signin"
           /\ user_id \in AllowUsers(secrets)
           /\ user' = user_id
           /\ IF user_id \in DOMAIN individual THEN password = individual[user_id]
              ELSE (secrets.common_password # "none"
                      /\ password = secrets.common_password)]_vars

\* C27. The failed-attempt counter is not a lockout: a submission of the
\* sign-in form by a user outside the allow-list leaves signin_attempts
\* unchanged, a submission by an allowed user with a wrong password adds
\* exactly 1 to it, and a submission with correct credentials, whatever the
\* counter (5 or more included), sets signed_in and resets the counter to 0.
AttemptsNoLockout ==
  [][(/\ a_pc = "check_signin" /\ a_pc' # "check_signin"
      /\ secrets.has_auth /\ ~signed_in /\ typed'[3]) =>
       LET user_id == Lower(Strip(typed'[1]))
           password == typed'[2]
       IN  IF user_id \notin AllowUsers(secrets)
           THEN ~signed_in' /\ signin_attempts' = signin_attempts
           ELSE IF PasswordOk(secrets, user_id, password)
           THEN signed_in' /\ signin_attempts' = 0
           ELSE ~signed_in' /\ signin_attempts' = signin_attempts + 1]_vars

\* The counter has passed the limit of five and the form is still served.
PastLimitWitness ==
  /\ secrets.has_auth /\ ~signed_in
  /\ signin_attempts > AttemptLimit
  /\ typed[3] /\ Lower(Strip(typed[1])) \in AllowUsers(secrets)
  /\ a_pc = "check_signin"

\* C29. The relaxed re-search happens at most once and only on an empty
\* result: a run calls fetch_eupmc_all at most twice; the second call is
\* made only when the first returned no item and relax_if_zero is set; a
\* first call that returned at least one item goes straight to the summary
\* with its items, and the items are not replaced between the summary and
\* the scoring.
RelaxOnceOnEmpty ==
  /\ [](fetch_calls <= 2)
  /\ [](a_pc \in {"relax", "refetch"} => (relax_if_zero /\ fetch_calls >= 1))
  /\ [][fetch_calls' > fetch_calls =>
          \/ fetch_calls = 0 /\ a_pc = "if_run"
          \/ fetch_calls = 1 /\ a_pc = "relax" /\ Len(items) = 0 /\ relax_if_zero]_vars
  /\ [][(a_pc = "fetch" /\ a_pc' \notin {"fetch", "idle"}) =>
          /\ items' = fetch_ret[1]
          /\ (Len(fetch_ret[1]) > 0 => (a_pc' = "summary" /\ fetch_calls' = 1))]_vars
  /\ [][(a_pc \in {"summary", "score"}) =>
          (items' = items /\ fetch_calls' = fetch_calls)]_vars

\* A run whose first search was empty is scoring the items of its relaxed search.
RelaxedWitness ==
  /\ a_pc = "score"
  /\ fetch_calls = 2
  /\ relax_if_zero
  /\ Len(items) > 0

\* C30. Pagination terminates: for max_rows >= 1 and any sequence of
\* responses, fetch_eupmc_all makes at most ceil(max_rows / page_size)
\* requests, page_size being min(max_rows, 1000); a request is made only
\* while fetched < max_rows; the loop goes on after a request only when the
\* response held at least page_size items and a nextCursorMark, and then
\* fetched has grown by at least page_size; after any other response, or an
\* exception, no further request is made.
PaginationTerminates ==
  /\ []((f_pc # "idle" /\ max_rows >= 1) =>
          /\ page_size = Min(max_rows, PageCap)
          /\ n_requests <= (max_rows + page_size - 1) \div page_size
          /\ (f_pc = "while" => fetched >= n_requests * page_size))
  /\ [][(max_rows >= 1 /\ n_requests' # n_requests /\ f_pc' # "idle") =>
          /\ f_pc = "while" /\ fetched < max_rows
          /\ n_requests' = n_requests + 1
          /\ (f_pc' = "while") =
               (fetched' - fetched >= page_size /\ cursor' # cursor)
          /\ (f_pc' = "while" => fetched' >= fetched + page_size)]_vars

\* A call for 2001 rows has returned after three requests, the most it may make.
PaginationWitness ==
  /\ f_pc = "done"
  /\ max_rows = 2 * PageCap + 1
  /\ n_requests = 3
  /\ fetched >= max_rows

\* C28. Byline scoring: explode_authors returns one row per author of each
\* article, with Score 2 for the first author of the article's list and
\* Score 1 for every other; aggregate_author_scores holds exactly one row
\* per (Author, MainAffiliation) group, its Score being 2 x (first-author
\* rows of the group) + 1 x (its other rows), and its rows are ordered by
\* Score descending and, for equal scores, by Author ascending.
BylineScoring ==
  /\ (sc_pc # "idle" =>
        /\ Len(df) = Cardinality({<<j, k>> \in (DOMAIN sc_items) \X (1..Len(df)) :
                                    k \in DOMAIN sc_items[j].authorList})
        /\ \A j \in DOMAIN sc_items : \A k \in DOMAIN sc_items[j].authorList :
             \E n \in DOMAIN df :
               /\ df[n].PMID = sc_items[j].pmid /\ df[n].AuthorOrder = k
               /\ df[n].FullName = sc_items[j].authorList[k].fullName
               /\ df[n].FirstName = sc_items[j].authorList[k].firstName
               /\ df[n].LastName = sc_items[j].authorList[k].lastName
               /\ df[n].Score = IF k = 1 THEN 2 ELSE 1)
  /\ (sc_pc = "aggregated" =>
        LET Group(g, first) ==
              {n \in DOMAIN df : /\ AuthorOf(df[n]) = g.Author
                                 /\ df[n].MainAffiliation = g.MainAffiliation
                                 /\ (df[n].AuthorOrder = 1) = first}
        IN  /\ \A n \in DOMAIN df : \E k \in DOMAIN agg :
                 /\ agg[k].Author = AuthorOf(df[n])
                 /\ agg[k].MainAffiliation = df[n].MainAffiliation
            /\ \A k, m \in DOMAIN agg :
                 (/\ agg[k].Author = agg[m].Author
                  /\ agg[k].MainAffiliation = agg[m].MainAffiliation) => k = m
            /\ \A k \in DOMAIN agg :
                 /\ Group(agg[k], TRUE) \cup Group(agg[k], FALSE) # {}
                 /\ agg[k].Score = 2 * Cardinality(Group(agg[k], TRUE))
                                     + Cardinality(Group(agg[k], FALSE))
            /\ \A k \in 1..(Len(agg) - 1) :
                 \/ agg[k].Score > agg[k + 1].Score
                 \/ /\ agg[k].Score = agg[k + 1].Score
                    /\ ~StrLess(agg[k + 1].Author, agg[k].Author))

\* Two authors, each first on one article and second on the other, are
\* level at 3 and listed by name.
BylineWitness ==
  /\ sc_pc = "aggregated"
  /\ Len(sc_items) = 2
  /\ \E k \in 1..(Len(agg) - 1) :
       /\ agg[k].Score = 3 /\ agg[k + 1].Score = 3
       /\ StrLess(agg[k].Author, agg[k + 1].Author)
=============================================================================
